---- MODULE Spec2Model ----
(***************************************************************************)
(* A model of @phnq/message: two MessageConnections joined by a transport. *)
(* The "client" connection issues send / requestOne / requestMulti calls   *)
(* (MessageConnection.doRequest), the "server" connection answers them     *)
(* (MessageConnection.handleRequest).  Every await of the source is a      *)
(* separate step, so calls and handlers interleave as on the event loop.   *)
(***************************************************************************)
EXTENDS Integers, Sequences, FiniteSets, TLC

(***************************************************************************)
(* Bounds of the model.                                                    *)
(***************************************************************************)
\* longest stream a receive handler yields
MaxItems == 2

\* the client tasks that issue one call each, concurrently, on the one connection
Callers == {"p", "q"}

(***************************************************************************)
(* Program constants.                                                      *)
(***************************************************************************)
DEFAULT_RESPONSE_TIMEOUT == 5000

\* connId of the two MessageConnection instances (uuid() at construction)
ClientId == "A"
ServerId == "B"

(***************************************************************************)
(* JavaScript values.  A string is a sequence of tokens, so that the empty *)
(* string (falsy) and concatenation exist.                                 *)
(***************************************************************************)
JsUndefined == [type |-> "undefined"]
JsStr(tokens) == [type |-> "string", val |-> tokens]
JsInfo(code) == [type |-> "object", code |-> code]
JsNull == [type |-> "null"]
JsNum(n) == [type |-> "number", num |-> n]
JsBool(b) == [type |-> "boolean", bool |-> b]

\* JavaScript truthiness, as tested by `else if (result)`
Truthy(v) ==
  CASE v.type = "undefined" -> FALSE
    [] v.type = "null" -> FALSE
    [] v.type = "string" -> Len(v.val) > 0
    [] v.type = "number" -> v.num # 0
    [] v.type = "boolean" -> v.bool
    [] OTHER -> TRUE

\* Error objects: name is the class, message a string, info the Anomaly's info
NoErr == [name |-> "none", message |-> <<>>, info |-> JsUndefined]
MkError(message) == [name |-> "Error", message |-> message, info |-> JsUndefined]
MkAnomaly(message, info) == [name |-> "Anomaly", message |-> message, info |-> info]
TimeoutError == [name |-> "TimeoutError", message |-> <<"timeout">>, info |-> JsUndefined]

\* String(err) of an Error instance: "Error" or "Error: <message>"
StringOfError(err) ==
  IF err.message = <<>> THEN <<"Error">> ELSE <<"Error: ">> \o err.message

(***************************************************************************)
(* Messages (MessageTransport.ts).                                         *)
(***************************************************************************)
Msg(t, c, s, p) == [t |-> t, c |-> c, s |-> s, p |-> p]
NoMsg == Msg("none", 0, "", JsUndefined)

TerminalTypes == {"response", "anomaly", "error", "end"}

ErrorPayload(message, requestPayload) ==
  [type |-> "object", message |-> message, requestPayload |-> requestPayload]
AnomalyPayload(message, info, requestPayload) ==
  [type |-> "object", message |-> message, info |-> info,
   requestPayload |-> requestPayload]

(***************************************************************************)
(* The async queue of @phnq/streams, as the specification describes it:    *)
(* FIFO items, a flush mark after them, and a deadline on each read.       *)
(***************************************************************************)
NewQueue == [items |-> <<>>, flushed |-> FALSE, maxWaitTime |-> 0]
Enqueue(q, item) == [q EXCEPT !.items = Append(@, item)]
Flush(q) == [q EXCEPT !.flushed = TRUE]
\* a read returns the next item
ReadReady(q) == q.items # <<>>
\* a read finds the queue flushed and drained: the iterator ends
ReadEnded(q) == q.items = <<>> /\ q.flushed
\* a read blocks, and fails with a timeout error when maxWaitTime has passed
ReadExpires(q) == q.items = <<>> /\ ~q.flushed /\ q.maxWaitTime > 0
Dequeue(q) == [q EXCEPT !.items = Tail(@)]

(***************************************************************************)
(* Receive handlers the application may install on the server connection.  *)
(***************************************************************************)
ItemNames == <<"who's", "there", "?", "!">>

Handlers ==
  {[kind |-> "value", ret |-> r, n |-> 0, err |-> NoErr] :
      r \in {"echo", "empty", "null", "zero", "false", "void"}}
  \cup {[kind |-> "stream", ret |-> "void", n |-> n, err |-> e] :
      n \in 0..MaxItems,
      e \in {NoErr, MkError(<<"boom">>), MkAnomaly(<<"nope">>, JsInfo(7))}}
  \cup {[kind |-> "throw", ret |-> "void", n |-> 0, err |-> e] :
      e \in {MkError(<<>>), MkError(<<"boom">>),
             MkAnomaly(<<>>, JsUndefined), MkAnomaly(<<"nope">>, JsInfo(7))}}

\* what the handler returns for a value result
HandlerValue(h, requestPayload) ==
  CASE h.ret = "echo" -> JsStr(<<"you said ">> \o requestPayload.val)
    [] h.ret = "empty" -> JsStr(<<>>)
    [] h.ret = "null" -> JsNull
    [] h.ret = "zero" -> JsNum(0)
    [] h.ret = "false" -> JsBool(FALSE)
    [] OTHER -> JsUndefined

\* the i-th item the handler's stream yields
HandlerItem(h, requestPayload, i) == JsStr(<<ItemNames[i]>> \o requestPayload.val)

\* all the items the handler's stream yields
HandlerItems(h, requestPayload) ==
  [i \in 1..h.n |-> HandlerItem(h, requestPayload, i)]

\* the payload a caller sends
PayloadOf(p) == JsStr(<<p>>)

VARIABLES
  idIterator,      \* the last id the process-wide idIterator yielded
  responseQueues,  \* client connection: c -> its response queue
  call,            \* per caller: the doRequest / requestOne / requestMulti in progress
  toServer,        \* request messages handed to the transport, not yet received
  toClient,        \* c -> response messages handed to the transport, not yet received
  handlers,        \* server connection: c -> the handleRequest invocation for it
  onReceive,       \* the receive handler installed on the server connection
  otherSent,       \* second responder: c -> how many responses it has sent for c
  receive,         \* shared transport: the connection whose callback it holds
  connQueues,      \* shared transport: connection -> its responseQueues
  started,         \* shared transport: the requests issued, in the order of the calls
  shareToServer,   \* shared transport: requests sent, not yet received
  shareToClient,   \* shared transport: responses sent, not yet received
  signCase,        \* signing: the message built, the sender's salt and nonce,
                   \*   and the signSalt of the receiving connection
  inbound,         \* signing: the message on its way to the receiving connection
  stage,           \* signing: what has been done to the message so far
  tampered,        \* signing: the field changed on the way, "none" if none
  verdict,         \* signing: outcome of verifyMessage at the receiver
  signQueues,      \* signing: responseQueues of the receiving connection
  signHandled,     \* signing: requests handleRequest was called with
  signSent,        \* signing: responses the receiving connection sent
  maxPayload,      \* pub/sub: the broker's max_payload
  outbox,          \* pub/sub: marshalled messages the application will send
  sends,           \* pub/sub: per send, the message and the datagrams published
  network,         \* pub/sub: datagrams published, not yet delivered
  chunkedMessages, \* pub/sub: the receiver's reassembly buffers, by nonce
  received,        \* pub/sub: what the receive handler was called with, in order
  subscribed,      \* pub/sub: the subscription's receive loop is running
  clients,         \* broker pool: the entry [nc, refCount] of the configuration, if any
  brokers,         \* broker pool: nc -> the broker connection is "open" or "closed"
  transports,      \* broker pool: per transport, its create and close calls
  overlapped,      \* broker pool: a call began before another call had completed
  url,             \* client socket transport: the path of the URL it connects to
  socket,          \* client socket transport: this.socket, 0 when undefined
  sockets,         \* client socket transport: every WebSocket it has created
  sendCalls,       \* client socket transport: per message, the send call for it
  closeCalls,      \* client socket transport: per close call, the socket it awaits
  onCloseFired,    \* client socket transport: the sockets the onClose hook fired for
  wss,             \* socket server: "listening" until wss.close
  serverSockets,   \* socket server: the sockets of the upgrades it has seen
  connectionsById, \* socket server: the ids of the registered connections
  hookCalls,       \* socket server: the calls of onConnect, onReceive, onDisconnect
  serverClose,     \* socket server: the close() call of the server
  transportCloses, \* socket server: the close() calls on server socket transports
  wsClients,       \* socket client: the urls WebSocketMessageClient.create has an instance for
  receiveHandlers, \* socket client: the receive handlers of each instance, as inserted
  pushes,          \* socket client: the inbound requests, in the order of their arrival
  handlerCalls,    \* socket client: the calls of receive handlers
  pushResponses,   \* socket client: the responses sent for inbound requests
  codecStage,      \* codec: how far the value has gone: "input", "annotated", "deannotated"
  codecInput,      \* codec: the value given to annotate
  codecWire,       \* codec: what annotate returned
  codecOutput,     \* codec: what deannotate returned
  forged,          \* pub/sub transport: the datagrams put on the subject by another publisher
  publishSubject,  \* subject cache: options.publishSubject of the responder's transport
  subjectById,     \* subject cache: the map c -> subject of each transport
  published,       \* subject cache: the messages published, with their subjects
  pubCalls,        \* subject cache: the send calls made on the transports
  convs,           \* subject cache: the conversations between the two connections
  transform,       \* payload transforms: the marshalPayload/unmarshalPayload pair of both ends
  wire,            \* payload transforms: the messages handed to the transport
  steps,           \* payload transforms: what each connection did to each message
  handlerArg,      \* payload transforms: the argument of the receive handler
  requested,       \* payload transforms: the payload passed to request()
  handlerResult,   \* payload transforms: the payload the handler returned
  clientGot        \* payload transforms: the payload the requester got

\* the state of the requester, the responder and the transport between them
connVars == <<idIterator, responseQueues, call, toServer, toClient, handlers, onReceive>>

\* the state of the second responder
pinVars == <<otherSent>>

\* the state of the connections that share one transport
shareVars == <<receive, connQueues, started, shareToServer, shareToClient>>

\* the state of the signer and of the connection that verifies
signVars ==
  <<signCase, inbound, stage, tampered, verdict, signQueues, signHandled, signSent>>

\* the state of the publish/subscribe transports
natsVars == <<maxPayload, outbox, sends, network, chunkedMessages, received, subscribed>>

\* the state of the pool of broker connections
poolVars == <<clients, brokers, transports, overlapped>>

\* the state of the client socket transport
sockVars == <<url, socket, sockets, sendCalls, closeCalls, onCloseFired>>

\* the state of the socket server
regVars == <<wss, serverSockets, connectionsById, hookCalls, serverClose, transportCloses>>

\* the state of the socket clients' receive handlers
pushVars == <<wsClients, receiveHandlers, pushes, handlerCalls, pushResponses>>

\* the state of the annotation codec
codecVars == <<codecStage, codecInput, codecWire, codecOutput>>

\* the datagrams of other publishers
forgeVars == <<forged>>

\* the state of the subject caches of two pub/sub transports
subjVars == <<publishSubject, subjectById, published, pubCalls, convs>>

\* the state of the payload transforms of two connections
marshalVars == <<transform, wire, steps, handlerArg, requested, handlerResult, clientGot>>

\* the state of the components examined on their own
moreVars == <<codecVars, forgeVars, subjVars, marshalVars>>

\* the state of the transports' life cycles
lifeVars == <<poolVars, sockVars, regVars, pushVars, moreVars>>

\* the state of everything else
restOfSystem == <<pinVars, shareVars, signVars, natsVars, lifeVars>>

vars == <<connVars, restOfSystem>>

\* summaries: the conversation.responses of every onConversation call made
IdleCall ==
  [pc |-> "idle", kind |-> "none", c |-> 0, firstMsg |-> NoMsg, responses |-> <<>>,
   yielded |-> <<>>, returned |-> JsUndefined, thrown |-> NoErr, summaries |-> <<>>]

\* two connections just constructed, a receive handler installed on one
ConnInit ==
  /\ idIterator = 0
  /\ responseQueues = <<>>
  /\ call = [p \in Callers |-> IdleCall]
  /\ toServer = {}
  /\ toClient = [c \in {} |-> <<>>]
  /\ handlers = <<>>
  /\ onReceive \in Handlers

\* no second responder has received anything
NoSecondResponder == otherSent = <<>>

\* no connection has been built over the shared transport
NoSharedTransport ==
  /\ receive = "none"
  /\ connQueues = [conn \in {} |-> <<>>]
  /\ started = <<>>
  /\ shareToServer = {}
  /\ shareToClient = {}

\* no message is being signed or verified
NoSigning ==
  /\ signCase = [message |-> NoMsg, salt |-> "", u |-> "", signSalt |-> ""]
  /\ inbound = NoMsg
  /\ stage = "none"
  /\ tampered = "none"
  /\ verdict = "none"
  /\ signQueues = <<>>
  /\ signHandled = {}
  /\ signSent = {}

\* no publish/subscribe transport is in use
NoPubSub ==
  /\ maxPayload = 0
  /\ outbox = <<>>
  /\ sends = <<>>
  /\ network = <<>>
  /\ chunkedMessages = <<>>
  /\ received = <<>>
  /\ subscribed = TRUE

\* no transport has been created from the pool
NoPool ==
  /\ clients = <<>>
  /\ brokers = <<>>
  /\ transports = <<>>
  /\ overlapped = FALSE

\* no client socket transport has been constructed
NoClientSocket ==
  /\ url = ""
  /\ socket = 0
  /\ sockets = <<>>
  /\ sendCalls = <<>>
  /\ closeCalls = <<>>
  /\ onCloseFired = <<>>

\* no socket server has been constructed
NoServer ==
  /\ wss = "none"
  /\ serverSockets = <<>>
  /\ connectionsById = {}
  /\ hookCalls = <<>>
  /\ serverClose = <<>>
  /\ transportCloses = <<>>

\* no socket client has been created
NoPush ==
  /\ wsClients = {}
  /\ receiveHandlers = <<>>
  /\ pushes = <<>>
  /\ handlerCalls = <<>>
  /\ pushResponses = <<>>

\* no value is being annotated
NoCodec ==
  /\ codecStage = "none"
  /\ codecInput = JsUndefined
  /\ codecWire = JsUndefined
  /\ codecOutput = JsUndefined

\* none of the components examined on their own is in use
\* no subject cache is in use
NoSubjects ==
  /\ publishSubject = "none"
  /\ subjectById = <<>>
  /\ published = <<>>
  /\ pubCalls = <<>>
  /\ convs = <<>>

\* no payload transform is in use
NoTransforms ==
  /\ transform = "none"
  /\ wire = <<>>
  /\ steps = <<>>
  /\ handlerArg = 0
  /\ requested = 0
  /\ handlerResult = 0
  /\ clientGot = 0

NoMore == NoCodec /\ forged = <<>> /\ NoSubjects /\ NoTransforms

\* no transport life cycle is under way
NoLifecycle == NoPool /\ NoClientSocket /\ NoServer /\ NoPush /\ NoMore

Init ==
  /\ ConnInit
  /\ NoSecondResponder
  /\ NoLifecycle
  /\ NoSharedTransport
  /\ NoSigning
  /\ NoPubSub

\* sequence helpers
IsPrefix(a, b) == Len(a) <= Len(b) /\ \A i \in 1..Len(a) : a[i] = b[i]
IsSuffix(a, b) ==
  Len(a) <= Len(b) /\ \A i \in 1..Len(a) : a[i] = b[Len(b) - Len(a) + i]
Last(a) == a[Len(a)]

\* Map.delete(key)
MapDelete(map, key) == [k \in DOMAIN map \ {key} |-> map[k]]
\* Map.set(key, value)
MapSet(map, key, value) == [k \in DOMAIN map \cup {key} |-> IF k = key THEN value ELSE map[k]]

(***************************************************************************)
(* Requester side: MessageConnection.doRequest and its callers.            *)
(***************************************************************************)

\* possiblyThrow(message): the error it throws, NoErr when it returns
possiblyThrow(message) ==
  CASE message.t = "anomaly" -> MkAnomaly(message.p.message, message.p.info)
    [] message.t = "error" -> MkError(message.p.message)
    [] OTHER -> NoErr

\* transport.send(message) on the client's transport
ClientTransportSend(message) == toServer' = toServer \cup {message}

\* doRequest without `responseQueue.maxWaitTime = this.responseTimeout`
DoRequestNoDeadline(p, kind) ==
  /\ call[p].pc = "idle"
  /\ LET reqId == idIterator + 1
         expectResponse == kind # "send"
         requestMessage == Msg("request", reqId, ClientId, PayloadOf(p))
     IN /\ idIterator' = reqId
        /\ responseQueues' =
             IF expectResponse THEN MapSet(responseQueues, reqId, NewQueue)
             ELSE responseQueues
        /\ ClientTransportSend(requestMessage)
        /\ call' = [call EXCEPT ![p] =
             [IdleCall EXCEPT !.pc = "sending", !.kind = kind, !.c = reqId]]
  /\ UNCHANGED <<toClient, handlers, onReceive, restOfSystem>>

\* doRequest registering the queue whether or not a response is expected
DoRequestAlwaysQueue(p, kind) ==
  /\ call[p].pc = "idle"
  /\ LET reqId == idIterator + 1
         requestMessage == Msg("request", reqId, ClientId, PayloadOf(p))
         responseQueue == [NewQueue EXCEPT !.maxWaitTime = DEFAULT_RESPONSE_TIMEOUT]
     IN /\ idIterator' = reqId
        /\ responseQueues' = MapSet(responseQueues, reqId, responseQueue)
        /\ ClientTransportSend(requestMessage)
        /\ call' = [call EXCEPT ![p] =
             [IdleCall EXCEPT !.pc = "sending", !.kind = kind, !.c = reqId]]
  /\ UNCHANGED <<toClient, handlers, onReceive, restOfSystem>>

\* doRequest up to `await this.transport.send(requestMessage)`: take the next
\* id, build the request, register the queue when a response is expected,
\* hand the request to the transport.  kind "send" is requestOne(data, false).
DoRequest(p, kind) ==
  /\ call[p].pc = "idle"
  /\ LET reqId == idIterator + 1
         expectResponse == kind # "send"
         requestMessage == Msg("request", reqId, ClientId, PayloadOf(p))
         responseQueue == [NewQueue EXCEPT !.maxWaitTime = DEFAULT_RESPONSE_TIMEOUT]
     IN /\ idIterator' = reqId
        /\ responseQueues' =
             IF expectResponse THEN MapSet(responseQueues, reqId, responseQueue)
             ELSE responseQueues
        /\ ClientTransportSend(requestMessage)
        /\ call' = [call EXCEPT ![p] =
             [IdleCall EXCEPT !.pc = "sending", !.kind = kind, !.c = reqId]]
  /\ UNCHANGED <<toClient, handlers, onReceive, restOfSystem>>

\* doRequest with the queue registered only when transport.send has returned:
\* `this.responseQueues.set(reqId, responseQueue)` moved below the await
SendCompletedRegisters(p) ==
  /\ call[p].pc = "sending"
  /\ call' = [call EXCEPT ![p].pc = IF call[p].kind = "send" THEN "done" ELSE "awaitFirst"]
  /\ responseQueues' =
       IF call[p].kind = "send" THEN responseQueues
       ELSE MapSet(responseQueues, call[p].c,
                   [NewQueue EXCEPT !.maxWaitTime = DEFAULT_RESPONSE_TIMEOUT])
  /\ UNCHANGED <<idIterator, toServer, toClient, handlers, onReceive, restOfSystem>>

\* `await this.transport.send(requestMessage)` completes.  With
\* expectResponse false doRequest returns undefined, and so does requestOne.
SendCompleted(p) ==
  /\ call[p].pc = "sending"
  /\ call' = [call EXCEPT ![p].pc = IF call[p].kind = "send" THEN "done" ELSE "awaitFirst"]
  /\ UNCHANGED <<idIterator, responseQueues, toServer, toClient, handlers, onReceive, restOfSystem>>

\* `firstMsg = (await iter.next()).value` returns a message.  A multi message
\* makes doRequest return the generator, whose first step yields firstMsg.p
\* and touches nothing else; any other message ends the conversation here.
\* requestMulti wraps a single value into a one-element sequence.
ReadFirst(p) ==
  /\ call[p].pc = "awaitFirst"
  /\ LET reqId == call[p].c
         responseQueue == responseQueues[reqId]
         firstMsg == Head(responseQueue.items)
         thrown == possiblyThrow(firstMsg)
     IN /\ ReadReady(responseQueue)
        /\ IF firstMsg.t = "multi"
           THEN /\ responseQueues' = [responseQueues EXCEPT ![reqId] = Dequeue(@)]
                /\ call' = [call EXCEPT ![p].pc = "streaming",
                                        ![p].firstMsg = firstMsg,
                                        ![p].responses = Append(@, firstMsg),
                                        ![p].yielded = <<firstMsg.p>>]
           ELSE /\ responseQueues' = MapDelete(responseQueues, reqId)
                /\ call' = [call EXCEPT
                     ![p].pc = IF thrown # NoErr THEN "failed" ELSE "done",
                     ![p].firstMsg = firstMsg,
                     ![p].responses = Append(@, firstMsg),
                     ![p].summaries = Append(@, Append(call[p].responses, firstMsg)),
                     ![p].thrown = thrown,
                     ![p].returned =
                        IF thrown = NoErr /\ call[p].kind = "requestOne"
                        THEN firstMsg.p ELSE JsUndefined,
                     ![p].yielded =
                        IF thrown = NoErr /\ call[p].kind = "requestMulti"
                        THEN <<firstMsg.p>> ELSE <<>>]
  /\ UNCHANGED <<idIterator, toServer, toClient, handlers, onReceive, restOfSystem>>

\* `await iter.next()` of the first read fails: the queue's deadline passed.
\* The error leaves doRequest at that line.
FirstReadTimeout(p) ==
  /\ call[p].pc = "awaitFirst"
  /\ ReadExpires(responseQueues[call[p].c])
  /\ call' = [call EXCEPT ![p].pc = "failed", ![p].thrown = TimeoutError]
  /\ UNCHANGED <<idIterator, responseQueues, toServer, toClient, handlers, onReceive, restOfSystem>>

\* one turn of `for await (const message of responseQueue.iterator())` in the
\* generator: a message of the pinned source is recorded, thrown or yielded,
\* one of another source is ignored.  A throw runs the finally block.
StreamNext(p) ==
  /\ call[p].pc = "streaming"
  /\ LET reqId == call[p].c
         responseQueue == responseQueues[reqId]
         message == Head(responseQueue.items)
         thrown == possiblyThrow(message)
     IN /\ ReadReady(responseQueue)
        /\ IF message.s = call[p].firstMsg.s
           THEN IF thrown # NoErr
                THEN /\ responseQueues' = MapDelete(responseQueues, reqId)
                     /\ call' = [call EXCEPT ![p].pc = "failed",
                                             ![p].responses = Append(@, message),
                                             ![p].thrown = thrown]
                ELSE /\ responseQueues' = [responseQueues EXCEPT ![reqId] = Dequeue(@)]
                     /\ call' = [call EXCEPT
                          ![p].responses = Append(@, message),
                          ![p].yielded = IF message.t = "multi"
                                         THEN Append(@, message.p) ELSE @]
           ELSE /\ responseQueues' = [responseQueues EXCEPT ![reqId] = Dequeue(@)]
                /\ call' = call
  /\ UNCHANGED <<idIterator, toServer, toClient, handlers, onReceive, restOfSystem>>

\* the generator ending without deleting the queue
StreamEndKeepsQueue(p) ==
  /\ call[p].pc = "streaming"
  /\ ReadEnded(responseQueues[call[p].c])
  /\ call' = [call EXCEPT ![p].pc = "done",
                          ![p].summaries = Append(@, call[p].responses),
                          ![p].returned = IF call[p].kind = "requestOne"
                                          THEN call[p].yielded[1] ELSE JsUndefined]
  /\ UNCHANGED <<idIterator, responseQueues, toServer, toClient, handlers, onReceive, restOfSystem>>

\* StreamEnd with requestOne returning the last element of resps
StreamEndReturnsLast(p) ==
  /\ call[p].pc = "streaming"
  /\ ReadEnded(responseQueues[call[p].c])
  /\ responseQueues' = MapDelete(responseQueues, call[p].c)
  /\ call' = [call EXCEPT ![p].pc = "done",
                          ![p].summaries = Append(@, call[p].responses),
                          ![p].returned = IF call[p].kind = "requestOne"
                                          THEN Last(call[p].yielded) ELSE JsUndefined]
  /\ UNCHANGED <<idIterator, toServer, toClient, handlers, onReceive, restOfSystem>>

\* the for-await loop ends (queue flushed and drained): onConversation, then
\* the finally block deletes the queue.  requestOne returns resps[0].
StreamEnd(p) ==
  /\ call[p].pc = "streaming"
  /\ ReadEnded(responseQueues[call[p].c])
  /\ responseQueues' = MapDelete(responseQueues, call[p].c)
  /\ call' = [call EXCEPT ![p].pc = "done",
                          ![p].summaries = Append(@, call[p].responses),
                          ![p].returned = IF call[p].kind = "requestOne"
                                          THEN call[p].yielded[1] ELSE JsUndefined]
  /\ UNCHANGED <<idIterator, toServer, toClient, handlers, onReceive, restOfSystem>>

\* the generator without its finally block
StreamReadTimeoutKeepsQueue(p) ==
  /\ call[p].pc = "streaming"
  /\ ReadExpires(responseQueues[call[p].c])
  /\ call' = [call EXCEPT ![p].pc = "failed", ![p].thrown = TimeoutError]
  /\ UNCHANGED <<idIterator, responseQueues, toServer, toClient, handlers, onReceive, restOfSystem>>

\* a read of the for-await loop fails: the queue's deadline passed.  The
\* error goes through the generator, whose finally block deletes the queue.
StreamReadTimeout(p) ==
  /\ call[p].pc = "streaming"
  /\ ReadExpires(responseQueues[call[p].c])
  /\ responseQueues' = MapDelete(responseQueues, call[p].c)
  /\ call' = [call EXCEPT ![p].pc = "failed", ![p].thrown = TimeoutError]
  /\ UNCHANGED <<idIterator, toServer, toClient, handlers, onReceive, restOfSystem>>

(***************************************************************************)
(* Responder side: the transport.onReceive callback of the constructor and *)
(* MessageConnection.handleRequest.                                        *)
(***************************************************************************)

\* transport.send(message) on the server's transport: messages of one
\* conversation stay in order, conversations are not ordered among themselves
InFlight(c) == IF c \in DOMAIN toClient THEN toClient[c] ELSE <<>>
ServerTransportSend(message) ==
  toClient' = MapSet(toClient, message.c, Append(InFlight(message.c), message))

\* respond(m) in a handleRequest that goes on after a terminal message
respondAndGoOn(c, m) ==
  /\ ServerTransportSend(m)
  /\ handlers' = [handlers EXCEPT ![c].responses = Append(@, m),
                                  ![c].pc = "iterating"]

\* respond(m) of handleRequest: marshal and sign (both the identity without
\* options), hand to the transport, record in the conversation summary.
\* After the terminal message handleRequest leaves through its finally
\* block, which calls onConversation.
respond(c, m) ==
  /\ ServerTransportSend(m)
  /\ handlers' = [handlers EXCEPT
       ![c].responses = Append(@, m),
       ![c].pc = IF m.t = "multi" THEN "iterating" ELSE "done",
       ![c].summaries = IF m.t = "multi" THEN @ ELSE Append(@, Append(handlers[c].responses, m))]

\* the error message put into an error response
ErrMessageOf(err) == IF err.message # <<>> THEN err.message ELSE StringOfError(err)

\* the message the catch block of handleRequest builds for the error err
FailureMessage(c, source, err, requestPayload) ==
  IF err.name = "Anomaly"
  THEN Msg("anomaly", c, source, AnomalyPayload(err.message, err.info, requestPayload))
  ELSE Msg("error", c, source, ErrorPayload(ErrMessageOf(err), requestPayload))

\* the catch block of handleRequest
RespondFailure(c, err, requestPayload) ==
  respond(c, FailureMessage(c, ServerId, err, requestPayload))

\* the transport delivers a request to the server connection: the callback
\* calls handleRequest, which runs up to `await this.onReceive(requestPayload)`
ReceiveRequest(message) ==
  /\ message \in toServer
  /\ toServer' = toServer \ {message}
  /\ handlers' = MapSet(handlers, message.c,
       [pc |-> "awaitHandler", request |-> message, idx |-> 0, responses |-> <<>>,
        summaries |-> <<>>])
  /\ UNCHANGED <<idIterator, responseQueues, call, toClient, onReceive, restOfSystem>>

\* `await this.onReceive(requestPayload)` settles: a thrown error goes to the
\* catch block, a stream starts the for-await loop, a truthy value is sent as
\* the response, any other value sends nothing and handleRequest leaves
\* through its finally block
HandlerSettles(c) ==
  /\ c \in DOMAIN handlers
  /\ handlers[c].pc = "awaitHandler"
  /\ LET requestPayload == handlers[c].request.p
         result == HandlerValue(onReceive, requestPayload)
     IN CASE onReceive.kind = "throw" ->
               RespondFailure(c, onReceive.err, requestPayload)
          [] onReceive.kind = "stream" ->
               /\ handlers' = [handlers EXCEPT ![c].pc = "iterating"]
               /\ UNCHANGED toClient
          [] OTHER ->
               IF Truthy(result)
               THEN respond(c, Msg("response", c, ServerId, result))
               ELSE /\ handlers' = [handlers EXCEPT
                         ![c].pc = "done",
                         ![c].summaries = Append(@, handlers[c].responses)]
                    /\ UNCHANGED toClient
  /\ UNCHANGED <<idIterator, responseQueues, call, toServer, onReceive, restOfSystem>>

\* the handler's stream yields its next item: it is sent as a multi message
HandlerYields(c) ==
  /\ c \in DOMAIN handlers
  /\ handlers[c].pc = "iterating"
  /\ handlers[c].idx < onReceive.n
  /\ LET responsePayload == HandlerItem(onReceive, handlers[c].request.p, handlers[c].idx + 1)
     IN /\ ServerTransportSend(Msg("multi", c, ServerId, responsePayload))
        /\ handlers' = [handlers EXCEPT
             ![c].responses = Append(@, Msg("multi", c, ServerId, responsePayload)),
             ![c].idx = @ + 1]
  /\ UNCHANGED <<idIterator, responseQueues, call, toServer, onReceive, restOfSystem>>

\* the handler's stream finishes (the end message is sent) or throws (the
\* catch block sends the failure)
HandlerStreamEnds(c) ==
  /\ c \in DOMAIN handlers
  /\ handlers[c].pc = "iterating"
  /\ handlers[c].idx = onReceive.n
  /\ IF onReceive.err = NoErr
     THEN respond(c, Msg("end", c, ServerId, JsStr(<<"END">>)))
     ELSE RespondFailure(c, onReceive.err, handlers[c].request.p)
  /\ UNCHANGED <<idIterator, responseQueues, call, toServer, onReceive, restOfSystem>>

\* the callback a connection passes to transport.onReceive, for a response
\* message: the connection's responseQueues after it.  The queue of message.c
\* is looked up; a terminal message is enqueued and the queue flushed, a multi
\* message is enqueued, and a message for which no queue is registered is
\* dropped.
OnTransportReceive(queues, message) ==
  IF message.c \in DOMAIN queues
  THEN [queues EXCEPT ![message.c] =
          IF message.t \in TerminalTypes
          THEN Flush(Enqueue(@, message))
          ELSE IF message.t = "multi" THEN Enqueue(@, message) ELSE @]
  ELSE queues

\* the callback with `this.responseQueues.get(unmarshaledMessage.c)` replaced
\* by a lookup that ignores c and takes the oldest registered queue
ReceiveResponseAnyQueue(c) ==
  /\ c \in DOMAIN toClient
  /\ toClient[c] # <<>>
  /\ LET message == Head(toClient[c])
         registered == DOMAIN responseQueues
         target == CHOOSE k \in registered : \A j \in registered : k <= j
     IN /\ toClient' = [toClient EXCEPT ![c] = Tail(@)]
        /\ responseQueues' =
             IF registered # {}
             THEN [responseQueues EXCEPT ![target] =
                     IF message.t \in TerminalTypes
                     THEN Flush(Enqueue(@, message))
                     ELSE Enqueue(@, message)]
             ELSE responseQueues
  /\ UNCHANGED <<idIterator, call, toServer, handlers, onReceive, restOfSystem>>

\* the transport delivers a response message to the client connection: the
\* callback looks up the queue of message.c; a terminal message is enqueued
\* and the queue flushed, a multi message is enqueued, and a message for
\* which no queue is registered is dropped
ReceiveResponse(c) ==
  /\ c \in DOMAIN toClient
  /\ toClient[c] # <<>>
  /\ LET message == Head(toClient[c])
     IN /\ toClient' = [toClient EXCEPT ![c] = Tail(@)]
        /\ responseQueues' = OnTransportReceive(responseQueues, message)
  /\ UNCHANGED <<idIterator, call, toServer, handlers, onReceive, restOfSystem>>

Kinds == {"send", "requestOne", "requestMulti"}

Next ==
  \/ \E p \in Callers, kind \in Kinds : DoRequest(p, kind)
  \/ \E p \in Callers : SendCompleted(p)
  \/ \E p \in Callers : ReadFirst(p)
  \/ \E p \in Callers : FirstReadTimeout(p)
  \/ \E p \in Callers : StreamNext(p)
  \/ \E p \in Callers : StreamEnd(p)
  \/ \E p \in Callers : StreamReadTimeout(p)
  \/ \E message \in toServer : ReceiveRequest(message)
  \/ \E c \in DOMAIN handlers : HandlerSettles(c)
  \/ \E c \in DOMAIN handlers : HandlerYields(c)
  \/ \E c \in DOMAIN handlers : HandlerStreamEnds(c)
  \/ \E c \in DOMAIN toClient : ReceiveResponse(c)

Spec == Init /\ [][Next]_vars

(***************************************************************************)
(* doRequest when `await this.transport.send(requestMessage)` rejects.     *)
(***************************************************************************)

\* the error a transport's send fails with
SendError == MkError(<<"send", "failed">>)

\* transport.send rejects: the message reaches nobody and the error leaves
\* doRequest at the await; nothing in doRequest catches it, and the
\* generator whose finally block deletes the queue has not been made
SendFails(p) ==
  /\ call[p].pc = "sending"
  /\ \E message \in toServer : message.c = call[p].c
  /\ toServer' = {message \in toServer : message.c # call[p].c}
  /\ call' = [call EXCEPT ![p].pc = "failed", ![p].thrown = SendError]
  /\ UNCHANGED <<idIterator, responseQueues, toClient, handlers, onReceive, restOfSystem>>

SendFailNext == Next \/ \E p \in Callers : SendFails(p)

SendFailSpec == Init /\ [][SendFailNext]_vars

(***************************************************************************)
(* A second responder.  On a publish/subscribe transport every subscriber  *)
(* receives the request, so a second MessageConnection (connId OtherId)    *)
(* running the same receive handler answers it as well, and its responses  *)
(* reach the requester interleaved with those of the first.                *)
(***************************************************************************)
OtherId == "C"

\* every message handleRequest of connection `source` sends for a request,
\* in order
ResponsesOf(source, request) ==
  LET c == request.c
      items == HandlerItems(onReceive, request.p)
      result == HandlerValue(onReceive, request.p)
  IN CASE onReceive.kind = "throw" ->
            <<FailureMessage(c, source, onReceive.err, request.p)>>
       [] onReceive.kind = "stream" ->
            [i \in 1..onReceive.n |-> Msg("multi", c, source, items[i])]
            \o <<IF onReceive.err = NoErr
                 THEN Msg("end", c, source, JsStr(<<"END">>))
                 ELSE FailureMessage(c, source, onReceive.err, request.p)>>
       [] OTHER ->
            IF Truthy(result) THEN <<Msg("response", c, source, result)>> ELSE <<>>

\* the request message caller p's call has sent
RequestOf(p) == Msg("request", call[p].c, ClientId, PayloadOf(p))

\* the transport delivers the request of caller p to the second responder,
\* whose handleRequest starts
OtherReceiveRequest(p) ==
  /\ call[p].pc # "idle"
  /\ call[p].c \notin DOMAIN otherSent
  /\ otherSent' = MapSet(otherSent, call[p].c, 0)
  /\ UNCHANGED <<connVars, shareVars, signVars, natsVars, lifeVars>>

\* respond(m) in handleRequest of the second responder: its next message
OtherResponds(p) ==
  /\ call[p].c \in DOMAIN otherSent
  /\ LET c == call[p].c
         all == ResponsesOf(OtherId, RequestOf(p))
     IN /\ otherSent[c] < Len(all)
        /\ ServerTransportSend(all[otherSent[c] + 1])
        /\ otherSent' = [otherSent EXCEPT ![c] = @ + 1]
  /\ UNCHANGED <<idIterator, responseQueues, call, toServer, handlers, onReceive>>
  /\ UNCHANGED <<shareVars, signVars, natsVars, lifeVars>>

\* one conversation, answered by both responders
PinCaller == "p"

PinNext ==
  \/ \E kind \in Kinds : DoRequest(PinCaller, kind)
  \/ SendCompleted(PinCaller)
  \/ ReadFirst(PinCaller)
  \/ FirstReadTimeout(PinCaller)
  \/ StreamNext(PinCaller)
  \/ StreamEnd(PinCaller)
  \/ StreamReadTimeout(PinCaller)
  \/ \E message \in toServer : ReceiveRequest(message)
  \/ \E c \in DOMAIN handlers : HandlerSettles(c)
  \/ \E c \in DOMAIN handlers : HandlerYields(c)
  \/ \E c \in DOMAIN handlers : HandlerStreamEnds(c)
  \/ \E c \in DOMAIN toClient : ReceiveResponse(c)
  \/ OtherReceiveRequest(PinCaller)
  \/ OtherResponds(PinCaller)

PinSpec == Init /\ [][PinNext]_vars

(***************************************************************************)
(* Connections that share a transport.  Two MessageConnections are built   *)
(* over the same DirectTransport object; its connected transport carries a *)
(* responder that answers every request with the handler's value.          *)
(***************************************************************************)
\* requests issued over the shared transport
MaxRequests == 3

\* connId of the connections built over the shared transport
SharingConns == {"X1", "X2"}

\* new MessageConnection(transport): the constructor passes its callback to
\* transport.onReceive, which stores it in place of the one it held
Construct(conn) ==
  /\ conn \notin DOMAIN connQueues
  /\ connQueues' = MapSet(connQueues, conn, <<>>)
  /\ receive' = conn
  /\ UNCHANGED <<started, shareToServer, shareToClient>>
  /\ UNCHANGED <<connVars, pinVars, signVars, natsVars, lifeVars>>

\* the number of requests connection conn has issued
IssuedBy(conn) == Cardinality({i \in 1..Len(started) : started[i].s = conn})

\* doRequest drawing reqId from a generator owned by the connection
ShareRequestOwnIds(conn) ==
  /\ conn \in DOMAIN connQueues
  /\ idIterator < MaxRequests
  /\ LET reqId == IssuedBy(conn) + 1
         requestMessage == Msg("request", reqId, conn, PayloadOf(conn))
         responseQueue == [NewQueue EXCEPT !.maxWaitTime = DEFAULT_RESPONSE_TIMEOUT]
     IN /\ idIterator' = idIterator + 1
        /\ connQueues' = [connQueues EXCEPT ![conn] = MapSet(@, reqId, responseQueue)]
        /\ shareToServer' = shareToServer \cup {requestMessage}
        /\ started' = Append(started, requestMessage)
  /\ UNCHANGED <<receive, shareToClient, pinVars, signVars, natsVars, lifeVars>>
  /\ UNCHANGED <<responseQueues, call, toServer, toClient, handlers, onReceive>>

\* conn.requestOne(payload) up to transport.send: the next id of the
\* process-wide idIterator, the queue registered on conn, the request sent
ShareRequest(conn) ==
  /\ conn \in DOMAIN connQueues
  /\ idIterator < MaxRequests
  /\ LET reqId == idIterator + 1
         requestMessage == Msg("request", reqId, conn, PayloadOf(conn))
         responseQueue == [NewQueue EXCEPT !.maxWaitTime = DEFAULT_RESPONSE_TIMEOUT]
     IN /\ idIterator' = reqId
        /\ connQueues' = [connQueues EXCEPT ![conn] = MapSet(@, reqId, responseQueue)]
        /\ shareToServer' = shareToServer \cup {requestMessage}
        /\ started' = Append(started, requestMessage)
  /\ UNCHANGED <<receive, shareToClient, pinVars, signVars, natsVars, lifeVars>>
  /\ UNCHANGED <<responseQueues, call, toServer, toClient, handlers, onReceive>>

\* the responder on the connected transport handles a request: its handler
\* returns a value, sent as the response
ShareRespond(message) ==
  /\ message \in shareToServer
  /\ shareToServer' = shareToServer \ {message}
  /\ shareToClient' = shareToClient \cup
       {Msg("response", message.c, ServerId, HandlerValue(onReceive, message.p))}
  /\ UNCHANGED <<receive, connQueues, started, connVars, pinVars, signVars, natsVars, lifeVars>>

\* DirectTransport.handleReceive(message) on the shared transport: it calls
\* the one callback it holds, that of connection `receive`
ShareDeliver(message) ==
  /\ message \in shareToClient
  /\ shareToClient' = shareToClient \ {message}
  /\ connQueues' =
       IF receive \in DOMAIN connQueues
       THEN [connQueues EXCEPT ![receive] = OnTransportReceive(@, message)]
       ELSE connQueues
  /\ UNCHANGED <<receive, started, shareToServer, connVars, pinVars, signVars, natsVars, lifeVars>>

ShareInit == Init /\ onReceive.kind = "value" /\ onReceive.ret = "echo"

ShareNext ==
  \/ \E conn \in SharingConns : Construct(conn)
  \/ \E conn \in SharingConns : ShareRequest(conn)
  \/ \E message \in shareToServer : ShareRespond(message)
  \/ \E message \in shareToClient : ShareDeliver(message)

ShareSpec == ShareInit /\ [][ShareNext]_vars

(***************************************************************************)
(* Signing (sign.ts) and the value annotation codec (serialize.ts).        *)
(* A JSON text is a sequence of tokens.  The digest object-hash computes   *)
(* is taken to be collision free: it is the record of what is hashed.      *)
(***************************************************************************)
\* the suffix annotate gives to a date
DateMark == "@@@D"
Quote == "\""

\* a Date whose toISOString() is iso
JsDate(iso) == [type |-> "date", iso |-> iso]

\* JSON.stringify(v): a text, or undefined for undefined
JsonStringify(v) ==
  CASE v.type = "string" -> JsStr(<<Quote>> \o v.val \o <<Quote>>)
    [] v.type = "date" -> JsStr(<<Quote>> \o v.iso \o <<Quote>>)
    [] v.type = "null" -> JsStr(<<"null">>)
    [] OTHER -> JsUndefined

\* JSON.parse(text); a key JSON.stringify dropped reads as undefined
JsonParse(text) ==
  CASE text = JsUndefined -> JsUndefined
    [] text = JsStr(<<"null">>) -> JsNull
    [] OTHER -> JsStr(SubSeq(text.val, 2, Len(text.val) - 1))

\* an array, and a mapping with its keys in the order of Object.keys
JsArr(items) == [type |-> "array", items |-> items]
JsMap(keys, vals) == [type |-> "mapping", keys |-> keys, vals |-> vals]

\* annotate(val)
RECURSIVE annotate(_)
annotate(val) ==
  CASE val.type = "array" ->
         JsArr([i \in 1..Len(val.items) |-> annotate(val.items[i])])
    [] val.type = "date" -> JsStr(val.iso \o <<DateMark>>)
    [] val.type = "mapping" ->
         JsMap(val.keys, [i \in 1..Len(val.vals) |-> annotate(val.vals[i])])
    [] OTHER -> val

\* DATE_RE = /^(.+)@@@D$/ matches the string
DATE_RE(tokens) == Len(tokens) >= 2 /\ Last(tokens) = DateMark

\* deannotate(val)
RECURSIVE deannotate(_)
deannotate(val) ==
  CASE val.type = "array" ->
         JsArr([i \in 1..Len(val.items) |-> deannotate(val.items[i])])
    [] val.type = "string" /\ DATE_RE(val.val) ->
         JsDate(SubSeq(val.val, 1, Len(val.val) - 1))
    [] val.type = "mapping" ->
         JsMap(val.keys, [i \in 1..Len(val.vals) |-> deannotate(val.vals[i])])
    [] OTHER -> val

\* deserialize(serialize(message)): t, s and the parts of z are strings
\* without the date mark and c is a number, which JSON carries unchanged
Transmitted(message) ==
  [message EXCEPT !.p = deannotate(JsonParse(JsonStringify(annotate(message.p))))]

\* hashMessage(message, u, salt)
hashMessage(message, u, salt) ==
  [t |-> message.t, c |-> message.c, s |-> message.s,
   p |-> JsonStringify(message.p), u |-> u, salt |-> salt]

\* the signature z = "u:h" by the parts z.split(":") gives: u, h and what
\* follows a further ":"; NoZ is a message without z
NoDigest == hashMessage(NoMsg, "", "")
NoZ == [set |-> FALSE, u |-> "", h |-> NoDigest, more |-> <<>>]
Signature(u, h) == [set |-> TRUE, u |-> u, h |-> h, more |-> <<>>]

\* a message with the field z
WithZ(message, z) ==
  [t |-> message.t, c |-> message.c, s |-> message.s, p |-> message.p, z |-> z]

\* signMessage(message, salt), u being the uuid it draws
signMessage(message, salt, u) ==
  WithZ(message, Signature(u, hashMessage(message, u, salt)))

\* verifyMessage(message, salt): TRUE when it returns, FALSE when it throws
verifyMessage(message, salt) ==
  LET u == IF message.z.set THEN message.z.u ELSE ""
      h == IF message.z.set THEN message.z.h ELSE NoDigest
      verifiedZ == hashMessage(message, u, salt)
  IN message.z.set /\ h = verifiedZ

\* the messages, salts and nonces signing is exercised with
SignPayloads ==
  {JsStr(<<"hello">>), JsStr(<<"t0">>), JsStr(<<"t0", DateMark>>), JsDate(<<"t0">>),
   JsNull, JsUndefined}
SignTypes == {"request", "response", "multi"}
SignMessages ==
  {Msg(t, c, src, p) : t \in SignTypes, c \in {1, 2}, src \in {ClientId, ServerId},
                       p \in SignPayloads}
Salts == {"abcd1234", "other"}

\* the steps a message has gone through
Did(step) == \E i \in 1..Len(stage) : stage[i] = step

\* signing is about to start: a message has been built by a connection whose
\* signSalt is salt, for a connection whose signSalt is signSalt and which
\* awaits the response to its request 1
SignInit ==
  /\ ConnInit /\ onReceive.kind = "value" /\ onReceive.ret = "echo"
  /\ NoSecondResponder
  /\ NoLifecycle
  /\ NoSharedTransport
  /\ NoPubSub
  /\ signCase \in [message : SignMessages, salt : Salts, u : {"u1"}, signSalt : Salts]
  /\ inbound = WithZ(signCase.message, NoZ)
  /\ stage = <<>>
  /\ tampered = "none"
  /\ verdict = "none"
  /\ signQueues = <<[NewQueue EXCEPT !.maxWaitTime = DEFAULT_RESPONSE_TIMEOUT]>>
  /\ signHandled = {}
  /\ signSent = {}

\* MessageConnection.signMessage on the sending connection
Sign ==
  /\ stage = <<>>
  /\ inbound' = signMessage(inbound, signCase.salt, signCase.u)
  /\ stage' = Append(stage, "sign")
  /\ UNCHANGED <<signCase, tampered, verdict, signQueues, signHandled, signSent>>
  /\ UNCHANGED <<connVars, pinVars, shareVars, natsVars, lifeVars>>

\* the values one field of a signed message may be changed to on the way
Doctored(message, field) ==
  CASE field = "t" -> {[message EXCEPT !.t = t] : t \in SignTypes}
    [] field = "c" -> {[message EXCEPT !.c = c] : c \in {1, 2}}
    [] field = "s" -> {[message EXCEPT !.s = src] : src \in {ClientId, ServerId}}
    [] field = "p" -> {[message EXCEPT !.p = v] : v \in SignPayloads}
    [] field = "z" -> {[message EXCEPT !.z.u = "u2"],
                       [message EXCEPT !.z.h.salt = "forged"],
                       [message EXCEPT !.z.more = <<"x">>]}
    [] OTHER -> {[message EXCEPT !.z = NoZ]}

\* one field of the signed message is changed, or z is removed
Tamper(field) ==
  /\ stage = <<"sign">>
  /\ \E doctored \in Doctored(inbound, field) :
       /\ doctored # inbound
       /\ inbound' = doctored
  /\ tampered' = field
  /\ stage' = Append(stage, "tamper")
  /\ UNCHANGED <<signCase, verdict, signQueues, signHandled, signSent>>
  /\ UNCHANGED <<connVars, pinVars, shareVars, natsVars, lifeVars>>

\* the message crosses a transport that serializes it
Transmit ==
  /\ ~Did("transmit") /\ ~Did("receive")
  /\ inbound' = Transmitted(inbound)
  /\ stage' = Append(stage, "transmit")
  /\ UNCHANGED <<signCase, tampered, verdict, signQueues, signHandled, signSent>>
  /\ UNCHANGED <<connVars, pinVars, shareVars, natsVars, lifeVars>>

\* the receiving connection's callback after the message is verified, or
\* when signSalt is not set: a request goes to handleRequest, whose handler
\* returns its argument; a response is routed to its queue
Accept(message) ==
  IF message.t = "request"
  THEN /\ signHandled' = signHandled \cup {message}
       /\ signSent' = IF Truthy(message.p)
                      THEN signSent \cup {Msg("response", message.c, ServerId, message.p)}
                      ELSE signSent
       /\ UNCHANGED signQueues
  ELSE /\ signQueues' = OnTransportReceive(signQueues, message)
       /\ UNCHANGED <<signHandled, signSent>>

\* the callback without `if (this.signSalt) verifyMessage(...)`
SignReceiveUnverified ==
  /\ ~Did("receive")
  /\ stage' = Append(stage, "receive")
  /\ verdict' = "ok"
  /\ Accept(inbound)
  /\ UNCHANGED <<signCase, inbound, tampered>>
  /\ UNCHANGED <<connVars, pinVars, shareVars, natsVars, lifeVars>>

\* the transport hands the message to the callback of the receiving
\* connection, which has signSalt set: verifyMessage throws, and the callback
\* ends there, or returns, and the message is handled
SignReceive ==
  /\ ~Did("receive")
  /\ stage' = Append(stage, "receive")
  /\ IF verifyMessage(inbound, signCase.signSalt)
     THEN /\ verdict' = "ok"
          /\ Accept(inbound)
     ELSE /\ verdict' = "failed"
          /\ UNCHANGED <<signQueues, signHandled, signSent>>
  /\ UNCHANGED <<signCase, inbound, tampered>>
  /\ UNCHANGED <<connVars, pinVars, shareVars, natsVars, lifeVars>>

SignNext ==
  \/ Sign
  \/ \E field \in {"t", "c", "s", "p", "z", "no z"} : Tamper(field)
  \/ Transmit
  \/ SignReceive

SignSpec == SignInit /\ [][SignNext]_vars

(***************************************************************************)
(* The publish/subscribe transport (NATSTransport.ts): a marshalled        *)
(* message is a sequence of bytes, a datagram is the sequence of bytes     *)
(* handed to nc.publish.  The broker delivers datagrams in any order.      *)
(***************************************************************************)
\* the longest marshalled message whose framing is examined
MaxLen == 260

\* Buffer.from("@phnq/message/chunk", "utf-8")
CHUNK_HEADER_PREFIX ==
  <<64, 112, 104, 110, 113, 47, 109, 101, 115, 115, 97, 103, 101, 47, 99, 104, 117, 110, 107>>

\* an element of a Uint8Array
Byte(n) == n % 256

\* the 16 bytes of the k-th uuid drawn
uuidBuf(k) == <<Byte(k)>> \o [i \in 1..15 |-> 0]

\* a marshalled message of len bytes: a JSON text, which starts with "{"
Marshalled(len, seed) == [i \in 1..len |-> IF i = 1 THEN 123 ELSE Byte(i * seed)]

Min(a, b) == IF a <= b THEN a ELSE b

\* Math.ceil(a / b) for b > 0
CeilDiv(a, b) == (a + b - 1) \div b

\* sendMessageInChunks: the datagrams it publishes, in order
sendMessageInChunks(marshalledMessage, uuid) ==
  LET chunkHeaderLen == Len(CHUNK_HEADER_PREFIX) + 18
      chunkBodyLen == maxPayload - chunkHeaderLen
      numChunks == CeilDiv(Len(marshalledMessage), chunkBodyLen)
  IN [k \in 1..numChunks |->
        CHUNK_HEADER_PREFIX \o uuid \o <<Byte(k - 1), Byte(numChunks)>>
        \o SubSeq(marshalledMessage, (k - 1) * chunkBodyLen + 1,
                  Min(k * chunkBodyLen, Len(marshalledMessage)))]

\* the datagrams NATSTransport.send publishes for a marshalled message
Published(marshalledMessage, uuid) ==
  IF Len(marshalledMessage) > maxPayload
  THEN sendMessageInChunks(marshalledMessage, uuid)
  ELSE <<marshalledMessage>>

\* the subject NATSTransport.send resolves for the message
PublishSubject == "subject"

\* a datagram starts with CHUNK_HEADER_PREFIX
IsChunk(data) ==
  \A i \in 1..Len(CHUNK_HEADER_PREFIX) : i <= Len(data) /\ data[i] = CHUNK_HEADER_PREFIX[i]

\* the fields receiveMessageChunk slices out of a chunk
NonceOf(chunkBuf) ==
  SubSeq(chunkBuf, Len(CHUNK_HEADER_PREFIX) + 1, Len(CHUNK_HEADER_PREFIX) + 16)
IndexOf(chunkBuf) == chunkBuf[Len(CHUNK_HEADER_PREFIX) + 17]
TotalOf(chunkBuf) == chunkBuf[Len(CHUNK_HEADER_PREFIX) + 18]
BodyOf(chunkBuf) == SubSeq(chunkBuf, Len(CHUNK_HEADER_PREFIX) + 19, Len(chunkBuf))

\* Buffer.concat(list)
RECURSIVE Concat(_)
Concat(list) ==
  IF Len(list) = 0 THEN <<>>
  ELSE IF Len(list) = 1 THEN list[1]
  ELSE LET half == Len(list) \div 2
       IN Concat(SubSeq(list, 1, half)) \o Concat(SubSeq(list, half + 1, Len(list)))

\* the elements of a sequence
Range(seq) == {seq[i] : i \in 1..Len(seq)}

\* NATSTransport.send(message) from marshall on: the next message of the
\* application is published, whole or in chunks
NatsSend ==
  /\ outbox # <<>>
  /\ LET marshalledMessage == Head(outbox)
         datagrams == Published(marshalledMessage, uuidBuf(Len(sends) + 1))
     IN /\ sends' = Append(sends,
             [message |-> marshalledMessage, datagrams |-> datagrams,
              subjects |-> [k \in 1..Len(datagrams) |-> PublishSubject],
              failed |-> FALSE])
        /\ network' = network \o datagrams
  /\ outbox' = Tail(outbox)
  /\ UNCHANGED <<maxPayload, chunkedMessages, received, subscribed>>
  /\ UNCHANGED <<connVars, pinVars, shareVars, signVars, lifeVars>>

\* JSON_CODEC.decode accepts the data: it is a complete JSON text. The
\* marshalled messages are; a proper part of one is not.
IsJson(data) == \E k \in 1..Len(sends) : sends[k].message = data

\* an element of the array of chunk bodies: a hole, or a body
Hole == [filled |-> FALSE, body |-> <<>>]
Slot(body) == [filled |-> TRUE, body |-> body]

\* new Array(n)
NewArray(n) == [i \in 1..n |-> Hole]

\* array[index] = body; an index beyond the end lengthens the array
ArraySet(array, index, body) ==
  [i \in 1..(IF index + 1 > Len(array) THEN index + 1 ELSE Len(array)) |->
     IF i = index + 1 THEN Slot(body)
     ELSE IF i <= Len(array) THEN array[i] ELSE Hole]

\* array.filter(Boolean): every body is an object, so every body passes
Filled(array) == {i \in 1..Len(array) : array[i].filled}

\* the receive handler is called with the message unmarshalled from data,
\* or unmarshall throws and ends the subscription's loop
Unmarshalled(data) ==
  IF IsJson(data)
  THEN received' = Append(received, data) /\ subscribed' = subscribed
  ELSE received' = received /\ subscribed' = FALSE

receiveMessageChunk(chunkBuf) ==
  LET prefixLen == Len(CHUNK_HEADER_PREFIX)
  IN IF Len(chunkBuf) < prefixLen + 18
     THEN UNCHANGED <<chunkedMessages, received, subscribed>>
     ELSE
       LET uuidStr == NonceOf(chunkBuf)
           chunkIndex == IndexOf(chunkBuf)
           numChunks == TotalOf(chunkBuf)
           found == IF uuidStr \in DOMAIN chunkedMessages
                    THEN chunkedMessages[uuidStr]
                    ELSE NewArray(numChunks)
           chunkedMessage == ArraySet(found, chunkIndex, BodyOf(chunkBuf))
           stored == [n \in DOMAIN chunkedMessages \cup {uuidStr} |->
                        IF n = uuidStr THEN chunkedMessage ELSE chunkedMessages[n]]
           data == Concat([i \in 1..Len(chunkedMessage) |-> chunkedMessage[i].body])
       IN IF Len(chunkedMessage) = Cardinality(Filled(chunkedMessage))
          THEN /\ Unmarshalled(data)
               /\ chunkedMessages' =
                    IF IsJson(data)
                    THEN [n \in DOMAIN stored \ {uuidStr} |-> stored[n]]
                    ELSE stored
          ELSE /\ chunkedMessages' = stored
               /\ UNCHANGED <<received, subscribed>>

\* the body of the subscription's loop for one datagram; a datagram that
\* arrives after the loop has ended is not handled
OnDatagram(msgData) ==
  IF ~subscribed
  THEN UNCHANGED <<chunkedMessages, received, subscribed>>
  ELSE IF ~IsChunk(msgData)
       THEN Unmarshalled(msgData) /\ UNCHANGED chunkedMessages
       ELSE receiveMessageChunk(msgData)

\* the broker delivers any one of the datagrams in flight
NatsDeliverAny ==
  /\ \E i \in 1..Len(network) :
       /\ OnDatagram(network[i])
       /\ network' = SubSeq(network, 1, i - 1) \o SubSeq(network, i + 1, Len(network))
  /\ UNCHANGED <<maxPayload, outbox, sends>>
  /\ UNCHANGED <<connVars, pinVars, shareVars, signVars, lifeVars>>

\* the broker delivers the datagrams in the order of their publication
NatsDeliverNext ==
  /\ network # <<>>
  /\ OnDatagram(Head(network))
  /\ network' = Tail(network)
  /\ UNCHANGED <<maxPayload, outbox, sends>>
  /\ UNCHANGED <<connVars, pinVars, shareVars, signVars, lifeVars>>

\* the framing of one message of every length, for two payload limits
FramingInit ==
  /\ ConnInit /\ onReceive.kind = "value" /\ onReceive.ret = "echo"
  /\ NoSecondResponder
  /\ NoLifecycle
  /\ NoSharedTransport
  /\ NoSigning
  /\ maxPayload \in {38, 39}
  /\ \E len \in 1..MaxLen : outbox = <<Marshalled(len, 7)>>
  /\ sends = <<>>
  /\ network = <<>>
  /\ chunkedMessages = <<>>
  /\ received = <<>>
  /\ subscribed = TRUE

FramingNext == NatsSend

FramingSpec == FramingInit /\ [][FramingNext]_vars

\* three messages: of three chunks, of two chunks, and unframed
ChunkMessages == <<Marshalled(150, 7), Marshalled(101, 11), Marshalled(20, 13)>>

\* the three messages in every order, and a chunked message sent twice
ChunkOutboxes ==
  {[k \in 1..3 |-> ChunkMessages[order[k]]] :
     order \in {o \in [1..3 -> 1..3] : \A a, b \in 1..3 : a # b => o[a] # o[b]}}
  \cup {<<ChunkMessages[k], ChunkMessages[k]>> : k \in 1..2}

\* messages sent to one subscriber, their datagrams delivered in any order
ChunkInit ==
  /\ ConnInit /\ onReceive.kind = "value" /\ onReceive.ret = "echo"
  /\ NoSecondResponder
  /\ NoLifecycle
  /\ NoSharedTransport
  /\ NoSigning
  /\ maxPayload = 100
  /\ outbox \in ChunkOutboxes
  /\ sends = <<>>
  /\ network = <<>>
  /\ chunkedMessages = <<>>
  /\ received = <<>>
  /\ subscribed = TRUE

ChunkNext == NatsSend \/ NatsDeliverAny

ChunkSpec == ChunkInit /\ [][ChunkNext]_vars

\* one long message sent to one subscriber, its datagrams delivered in the
\* order of their publication
OrderedInit ==
  /\ ConnInit /\ onReceive.kind = "value" /\ onReceive.ret = "echo"
  /\ NoSecondResponder
  /\ NoLifecycle
  /\ NoSharedTransport
  /\ NoSigning
  /\ maxPayload \in {38, 39}
  /\ \E len \in (MaxLen - 8)..MaxLen : outbox = <<Marshalled(len, 7)>>
  /\ sends = <<>>
  /\ network = <<>>
  /\ chunkedMessages = <<>>
  /\ received = <<>>
  /\ subscribed = TRUE

OrderedNext == NatsSend \/ NatsDeliverNext

OrderedSpec == OrderedInit /\ [][OrderedNext]_vars

\* the number of datagrams another publisher puts on the subject
MaxForged == 2

\* a chunk datagram with the given nonce, index byte, total byte and body
ChunkDatagram(nonce, index, total, body) ==
  CHUNK_HEADER_PREFIX \o nonce \o <<Byte(index), Byte(total)>> \o body

\* the header of a chunk is invalid: it ends before the index and total
\* bytes, its total is 0, or its index is not below its total
InvalidHeader(chunkBuf) ==
  /\ IsChunk(chunkBuf)
  /\ \/ Len(chunkBuf) < Len(CHUNK_HEADER_PREFIX) + 18
     \/ TotalOf(chunkBuf) = 0
     \/ IndexOf(chunkBuf) >= TotalOf(chunkBuf)

\* chunk datagrams with an invalid header: with the nonce of the chunked
\* message of the application or another one, and with a body that is a
\* JSON text or not
ForgedChunks ==
  {ChunkDatagram(nonce, h[1], h[2], body) :
     nonce \in {uuidBuf(2), uuidBuf(9)},
     h \in {<<2, 2>>, <<3, 2>>, <<0, 0>>, <<1, 0>>},
     body \in {<<1, 2>>, Marshalled(20, 13)}}
  \cup {CHUNK_HEADER_PREFIX \o uuidBuf(2), CHUNK_HEADER_PREFIX \o uuidBuf(2) \o <<0>>,
        CHUNK_HEADER_PREFIX \o SubSeq(uuidBuf(9), 1, 5), CHUNK_HEADER_PREFIX}

\* another publisher's datagram reaches the subject, at any place among the
\* datagrams in flight
NatsForge(datagram, i) ==
  /\ Len(forged) < MaxForged
  /\ forged' = Append(forged, datagram)
  /\ network' = SubSeq(network, 1, i) \o <<datagram>> \o SubSeq(network, i + 1, Len(network))
  /\ UNCHANGED <<maxPayload, outbox, sends, chunkedMessages, received, subscribed>>
  /\ UNCHANGED <<connVars, pinVars, shareVars, signVars>>
  /\ UNCHANGED <<poolVars, sockVars, regVars, pushVars, codecVars, subjVars, marshalVars>>

\* an unframed message and a message of three chunks sent to one subscriber
ForgedInit ==
  /\ ConnInit /\ onReceive.kind = "value" /\ onReceive.ret = "echo"
  /\ NoSecondResponder
  /\ NoLifecycle
  /\ NoSharedTransport
  /\ NoSigning
  /\ maxPayload = 100
  /\ outbox = <<Marshalled(20, 13), Marshalled(150, 7)>>
  /\ sends = <<>>
  /\ network = <<>>
  /\ chunkedMessages = <<>>
  /\ received = <<>>
  /\ subscribed = TRUE

ForgedNext ==
  \/ NatsSend
  \/ NatsDeliverNext
  \/ \E datagram \in ForgedChunks, i \in 0..Len(network) : NatsForge(datagram, i)

ForgedSpec == ForgedInit /\ [][ForgedNext]_vars

(***************************************************************************)
(* The pool of broker connections (NATSTransport.create and close).  All   *)
(* transports are created from one configuration, so the pool has one key. *)
(* A call runs to its first await in one step and resumes in another.      *)
(***************************************************************************)

MaxCloses == 2

PoolTransports == {"t1", "t2", "t3"}

\* the connections and the other transports are at rest
OnlyLifecycle ==
  /\ ConnInit /\ onReceive.kind = "value" /\ onReceive.ret = "echo"
  /\ otherSent = <<>>
  /\ NoSharedTransport
  /\ NoSigning
  /\ NoPubSub

\* a create or close call is between its await and its resumption
InProgress(t) == transports[t].pc = "connecting" \/ transports[t].closing

SomeCallInProgress == \E t \in PoolTransports : InProgress(t)

\* create, up to the await of connectToNats when the pool has no entry
PoolCreate(t) ==
  /\ transports[t].pc = "absent"
  /\ IF clients # <<>>
     THEN /\ clients' = <<[nc |-> clients[1].nc, refCount |-> clients[1].refCount + 1]>>
          /\ transports' = [transports EXCEPT ![t].pc = "created", ![t].nc = clients[1].nc]
     ELSE /\ clients' = clients
          /\ transports' = [transports EXCEPT ![t].pc = "connecting"]
  /\ overlapped' = (overlapped \/ SomeCallInProgress)
  /\ UNCHANGED brokers
  /\ UNCHANGED <<connVars, pinVars, shareVars, signVars, natsVars>>
  /\ UNCHANGED <<sockVars, regVars, pushVars, moreVars>>

\* create, resumed with the connection connectToNats made
PoolConnected(t) ==
  /\ transports[t].pc = "connecting"
  /\ LET nc == Len(brokers) + 1
     IN /\ brokers' = Append(brokers, "open")
        /\ clients' = <<[nc |-> nc, refCount |-> 0 + 1]>>
        /\ transports' = [transports EXCEPT ![t].pc = "created", ![t].nc = nc]
  /\ UNCHANGED overlapped
  /\ UNCHANGED <<connVars, pinVars, shareVars, signVars, natsVars>>
  /\ UNCHANGED <<sockVars, regVars, pushVars, moreVars>>

\* close, up to the await of this.nc.close()
PoolClose(t) ==
  /\ transports[t].pc = "created"
  /\ ~transports[t].closing
  /\ transports[t].closeCalls < MaxCloses
  /\ IF clients = <<>>
     THEN /\ UNCHANGED <<clients, brokers>>
          /\ transports' = [transports EXCEPT ![t].closeCalls = @ + 1]
     ELSE IF clients[1].refCount > 1
     THEN /\ clients' = <<[nc |-> clients[1].nc, refCount |-> clients[1].refCount - 1]>>
          /\ transports' = [transports EXCEPT ![t].closeCalls = @ + 1]
          /\ UNCHANGED brokers
     ELSE /\ brokers' = [brokers EXCEPT ![transports[t].nc] = "closed"]
          /\ transports' = [transports EXCEPT ![t].closeCalls = @ + 1, ![t].closing = TRUE]
          /\ UNCHANGED clients
  /\ overlapped' = (overlapped \/ SomeCallInProgress)
  /\ UNCHANGED <<connVars, pinVars, shareVars, signVars, natsVars>>
  /\ UNCHANGED <<sockVars, regVars, pushVars, moreVars>>

\* close, resumed after this.nc.close(): clients.delete(clientPoolKey)
PoolCloseDone(t) ==
  /\ transports[t].closing
  /\ clients' = <<>>
  /\ transports' = [transports EXCEPT ![t].closing = FALSE]
  /\ UNCHANGED <<brokers, overlapped>>
  /\ UNCHANGED <<connVars, pinVars, shareVars, signVars, natsVars>>
  /\ UNCHANGED <<sockVars, regVars, pushVars, moreVars>>

PoolInit ==
  /\ OnlyLifecycle
  /\ NoMore
  /\ NoClientSocket
  /\ NoServer
  /\ NoPush
  /\ clients = <<>>
  /\ brokers = <<>>
  /\ transports =
       [t \in PoolTransports |-> [pc |-> "absent", nc |-> 0, closing |-> FALSE, closeCalls |-> 0]]
  /\ overlapped = FALSE

PoolNext ==
  \/ \E t \in PoolTransports : PoolCreate(t)
  \/ \E t \in PoolTransports : PoolConnected(t)
  \/ \E t \in PoolTransports : PoolClose(t)
  \/ \E t \in PoolTransports : PoolCloseDone(t)

PoolSpec == PoolInit /\ [][PoolNext]_vars

(***************************************************************************)
(* NATSTransport.create when the constructor throws: nc.info has no        *)
(* max_payload.  The pool entry has been written before `new NATSTransport`.*)
(***************************************************************************)

\* the constructor has thrown "NATS max_payload not set" on connection nc
MaxPayloadUnknown(nc) ==
  \E t \in PoolTransports : transports[t].pc = "failed" /\ transports[t].nc = nc

\* create on a pool whose connection, if it has one, reports max_payload
PoolCreateKnown(t) ==
  /\ clients # <<>> => ~MaxPayloadUnknown(clients[1].nc)
  /\ PoolCreate(t)

\* create finds the pool entry, counts itself in, and the constructor throws
PoolCreateFails(t) ==
  /\ transports[t].pc = "absent"
  /\ clients # <<>>
  /\ MaxPayloadUnknown(clients[1].nc)
  /\ clients' = <<[nc |-> clients[1].nc, refCount |-> clients[1].refCount + 1]>>
  /\ transports' = [transports EXCEPT ![t].pc = "failed", ![t].nc = clients[1].nc]
  /\ overlapped' = (overlapped \/ SomeCallInProgress)
  /\ UNCHANGED brokers
  /\ UNCHANGED <<connVars, pinVars, shareVars, signVars, natsVars>>
  /\ UNCHANGED <<sockVars, regVars, pushVars, moreVars>>

\* create, resumed with a connection without max_payload: the pool entry is
\* written with count 1, then the constructor throws and create rejects
PoolConnectedFails(t) ==
  /\ transports[t].pc = "connecting"
  /\ LET nc == Len(brokers) + 1
     IN /\ brokers' = Append(brokers, "open")
        /\ clients' = <<[nc |-> nc, refCount |-> 0 + 1]>>
        /\ transports' = [transports EXCEPT ![t].pc = "failed", ![t].nc = nc]
  /\ UNCHANGED overlapped
  /\ UNCHANGED <<connVars, pinVars, shareVars, signVars, natsVars>>
  /\ UNCHANGED <<sockVars, regVars, pushVars, moreVars>>

PoolFailNext ==
  \/ \E t \in PoolTransports : PoolCreateKnown(t)
  \/ \E t \in PoolTransports : PoolCreateFails(t)
  \/ \E t \in PoolTransports : PoolConnected(t)
  \/ \E t \in PoolTransports : PoolConnectedFails(t)
  \/ \E t \in PoolTransports : PoolClose(t)
  \/ \E t \in PoolTransports : PoolCloseDone(t)

PoolFailSpec == PoolInit /\ [][PoolFailNext]_vars

(***************************************************************************)
(* ClientWebSocketTransport.  A socket is a record of its readyState, the  *)
(* frames written to it and the reason of its close.  The application      *)
(* calls send and close; the runtime dispatches the open, error and close  *)
(* events.  A call resumes after its await in a step of its own, and the   *)
(* application acts only when no resumption is due.                        *)
(***************************************************************************)

MaxSockets == 3

MaxCloseCalls == 2

\* the messages the application sends, one send call each
SendIds == {"m1", "m2", "r1"}

\* the messages sent by a request, which reads a response; the others are
\* sent by MessageConnection.send, which does not
Requests == {"r1"}

\* the paths the server accepts, and the paths of the URLs of the clients
AllowedPaths == {"/the-path"}
Urls == {"/the-path", "/the-wrong-path"}

\* `unsupported path: ${req.url}`
UnsupportedPath(path) == "unsupported path: " \o path

\* the reason the server gives when it closes a socket of a client of this
\* URL: the rejection of the path, or none when it closes the transport of
\* a connection it has accepted
PeerReason == IF url \in AllowedPaths THEN "" ELSE UnsupportedPath(url)

\* where a call is once transport.send has resolved
AfterSend(m) == IF m \in Requests THEN "reading" ELSE "done"

NoError == [kind |-> "none", text |-> ""]

\* `Socket error (${this.url}): ${event?.error?.message || "unknown error"}`
SocketError == [kind |-> "Socket error", text |-> "url: cause"]

\* `Socket closed by server (${reason})`
SocketClosedError(reason) == [kind |-> "Socket closed by server", text |-> reason]

\* the iterator of the response queue gave up after responseTimeout
ReadTimeoutError == [kind |-> "timeout", text |-> ""]

\* socket.send on a socket that is still connecting throws
NotOpenError == [kind |-> "not open", text |-> "readyState 0 (CONNECTING)"]

\* a send call: where it is, the socket whose event it awaits, the socket it
\* created, the socket it wrote to, its error, and the state of the transport
\* when it was called
IdleSend ==
  [pc |-> "idle", on |-> 0, own |-> 0, wrote |-> 0, error |-> NoError, at |-> "none"]

\* the state of the transport: of this.socket
TransportState == IF socket = 0 THEN "disconnected" ELSE sockets[socket].readyState

ReadyState(s) == sockets[s].readyState

\* a call is due to resume after the event it awaited
ResumptionDue == \E m \in SendIds : sendCalls[m].pc \in {"opened", "joined"}

\* new WebSocket(this.url)
NewSocket ==
  [readyState |-> "connecting", written |-> <<>>, reason |-> "", error |-> "none", peer |-> FALSE]

\* this.socket.send(serialize(message)) in send, after connect has returned:
\* a frame is written to an open socket, a connecting socket throws, and a
\* closing or closed socket drops the frame
Written(m, sendCall) ==
  IF socket = 0 \/ ReadyState(socket) \in {"closing", "closed"}
  THEN /\ sendCalls' = [sendCalls EXCEPT ![m] = [sendCall EXCEPT !.pc = AfterSend(m)]]
       /\ UNCHANGED sockets
  ELSE IF ReadyState(socket) = "connecting"
  THEN /\ sendCalls' = [sendCalls EXCEPT ![m] =
                           [sendCall EXCEPT !.pc = "failed", !.error = NotOpenError]]
       /\ UNCHANGED sockets
  ELSE /\ sendCalls' = [sendCalls EXCEPT ![m] =
                           [sendCall EXCEPT !.pc = AfterSend(m), !.wrote = socket]]
       /\ sockets' = [sockets EXCEPT ![socket].written = Append(@, m)]

\* send(message) that opens a socket even when one is connecting
WsSendAlwaysConnects(m) ==
  /\ sendCalls[m].pc = "idle"
  /\ ~ResumptionDue
  /\ IF socket # 0 /\ ReadyState(socket) = "open"
     THEN Written(m, [sendCalls[m] EXCEPT !.at = TransportState]) /\ UNCHANGED socket
     ELSE /\ Len(sockets) < MaxSockets
          /\ sockets' = Append(sockets, NewSocket)
          /\ socket' = Len(sockets) + 1
          /\ sendCalls' = [sendCalls EXCEPT ![m].pc = "awaitConnect",
                                            ![m].on = Len(sockets) + 1,
                                            ![m].own = Len(sockets) + 1,
                                            ![m].at = TransportState]
  /\ UNCHANGED <<closeCalls, onCloseFired>>
  /\ UNCHANGED <<url, connVars, pinVars, shareVars, signVars, natsVars>>
  /\ UNCHANGED <<poolVars, regVars, pushVars, moreVars>>

\* send(message) up to the await in connect
WsSend(m) ==
  /\ sendCalls[m].pc = "idle"
  /\ ~ResumptionDue
  /\ IF socket # 0 /\ ReadyState(socket) = "open"
     THEN Written(m, [sendCalls[m] EXCEPT !.at = TransportState]) /\ UNCHANGED socket
     ELSE IF socket # 0 /\ ReadyState(socket) = "connecting"
     THEN /\ sendCalls' = [sendCalls EXCEPT ![m].pc = "awaitOpen", ![m].on = socket,
                                            ![m].at = TransportState]
          /\ UNCHANGED <<socket, sockets>>
     ELSE /\ Len(sockets) < MaxSockets
          /\ sockets' = Append(sockets, NewSocket)
          /\ socket' = Len(sockets) + 1
          /\ sendCalls' = [sendCalls EXCEPT ![m].pc = "awaitConnect",
                                            ![m].on = Len(sockets) + 1,
                                            ![m].own = Len(sockets) + 1,
                                            ![m].at = TransportState]
  /\ UNCHANGED <<closeCalls, onCloseFired>>
  /\ UNCHANGED <<url, connVars, pinVars, shareVars, signVars, natsVars>>
  /\ UNCHANGED <<poolVars, regVars, pushVars, moreVars>>

\* close(): socket.close(1000) and a promise resolved by the close event
WsClose ==
  /\ Len(closeCalls) < MaxCloseCalls
  /\ ~ResumptionDue
  /\ IF socket = 0
     THEN /\ closeCalls' = Append(closeCalls, [on |-> 0, resolved |-> TRUE])
          /\ UNCHANGED sockets
     ELSE /\ closeCalls' = Append(closeCalls, [on |-> socket, resolved |-> FALSE])
          /\ sockets' =
               [sockets EXCEPT ![socket] =
                  IF @.readyState = "connecting"
                  THEN [@ EXCEPT !.readyState = "closing", !.error = "pending"]
                  ELSE IF @.readyState = "open"
                  THEN [@ EXCEPT !.readyState = "closing"]
                  ELSE @]
  /\ UNCHANGED <<socket, sendCalls, onCloseFired>>
  /\ UNCHANGED <<url, connVars, pinVars, shareVars, signVars, natsVars>>
  /\ UNCHANGED <<poolVars, regVars, pushVars, moreVars>>

\* the open event of socket s: the promises awaiting it are resolved
SockOpen(s) ==
  /\ ReadyState(s) = "connecting"
  /\ sockets' = [sockets EXCEPT ![s].readyState = "open"]
  /\ sendCalls' =
       [m \in SendIds |->
          IF sendCalls[m].pc = "awaitConnect" /\ sendCalls[m].on = s
          THEN [sendCalls[m] EXCEPT !.pc = "opened"]
          ELSE IF sendCalls[m].pc = "awaitOpen" /\ sendCalls[m].on = s
          THEN [sendCalls[m] EXCEPT !.pc = "joined"]
          ELSE sendCalls[m]]
  /\ UNCHANGED <<socket, closeCalls, onCloseFired>>
  /\ UNCHANGED <<url, connVars, pinVars, shareVars, signVars, natsVars>>
  /\ UNCHANGED <<poolVars, regVars, pushVars, moreVars>>

\* a send that joined a connecting socket resumes in send
ResumeJoined(m) ==
  /\ sendCalls[m].pc = "joined"
  /\ Written(m, sendCalls[m])
  /\ UNCHANGED <<socket, closeCalls, onCloseFired>>
  /\ UNCHANGED <<url, connVars, pinVars, shareVars, signVars, natsVars>>
  /\ UNCHANGED <<poolVars, regVars, pushVars, moreVars>>

\* the send that created the socket resumes in connect after the open event
ResumeOpened(m) ==
  /\ sendCalls[m].pc = "opened"
  /\ LET own == sendCalls[m].own
         closeReason == IF ReadyState(own) = "closed" THEN sockets[own].reason
                        ELSE "unknown reason"
     IN IF socket # 0 /\ ReadyState(socket) = "closing"
        THEN /\ sendCalls' = [sendCalls EXCEPT ![m].pc = "awaitClose", ![m].on = socket]
             /\ UNCHANGED sockets
        ELSE IF socket = 0 \/ ReadyState(socket) = "closed"
        THEN /\ sendCalls' = [sendCalls EXCEPT ![m].pc = "failed",
                                               ![m].error = SocketClosedError(closeReason)]
             /\ UNCHANGED sockets
        ELSE Written(m, sendCalls[m])
  /\ UNCHANGED <<socket, closeCalls, onCloseFired>>
  /\ UNCHANGED <<url, connVars, pinVars, shareVars, signVars, natsVars>>
  /\ UNCHANGED <<poolVars, regVars, pushVars, moreVars>>

\* the connect of socket s fails
SockFail(s) ==
  /\ ReadyState(s) = "connecting"
  /\ sockets' = [sockets EXCEPT ![s].readyState = "closing", ![s].error = "pending"]
  /\ UNCHANGED <<socket, sendCalls, closeCalls, onCloseFired>>
  /\ UNCHANGED <<url, connVars, pinVars, shareVars, signVars, natsVars>>
  /\ UNCHANGED <<poolVars, regVars, pushVars, moreVars>>

\* the error event of socket s: the promise of the connect that created it
\* is rejected
SockErrorEvent(s) ==
  /\ sockets[s].error = "pending"
  /\ sockets' = [sockets EXCEPT ![s].error = "emitted"]
  /\ sendCalls' =
       [m \in SendIds |->
          IF sendCalls[m].pc = "awaitConnect" /\ sendCalls[m].on = s
          THEN [sendCalls[m] EXCEPT !.pc = "failed", !.error = SocketError]
          ELSE sendCalls[m]]
  /\ UNCHANGED <<socket, closeCalls, onCloseFired>>
  /\ UNCHANGED <<url, connVars, pinVars, shareVars, signVars, natsVars>>
  /\ UNCHANGED <<poolVars, regVars, pushVars, moreVars>>

\* the server closes the open socket s: its close frame arrives
PeerClose(s) ==
  /\ ReadyState(s) = "open"
  /\ sockets' = [sockets EXCEPT ![s].readyState = "closing", ![s].reason = PeerReason,
                                ![s].peer = TRUE]
  /\ UNCHANGED <<socket, sendCalls, closeCalls, onCloseFired>>
  /\ UNCHANGED <<url, connVars, pinVars, shareVars, signVars, natsVars>>
  /\ UNCHANGED <<poolVars, regVars, pushVars, moreVars>>

\* the close event of socket s: the listener connect installed, then the
\* listeners of close() and of the connects that wait for the close
SockCloseEvent(s) ==
  /\ ReadyState(s) = "closing"
  /\ sockets[s].error # "pending"
  /\ sockets' = [sockets EXCEPT ![s].readyState = "closed"]
  /\ onCloseFired' = Append(onCloseFired, s)
  /\ socket' = 0
  /\ closeCalls' =
       [k \in 1..Len(closeCalls) |->
          IF closeCalls[k].on = s THEN [closeCalls[k] EXCEPT !.resolved = TRUE]
          ELSE closeCalls[k]]
  /\ sendCalls' =
       [m \in SendIds |->
          IF sendCalls[m].pc = "awaitClose" /\ sendCalls[m].on = s
          THEN [sendCalls[m] EXCEPT !.pc = "failed",
                                    !.error = SocketClosedError(sockets[s].reason)]
          ELSE sendCalls[m]]
  /\ UNCHANGED <<url, connVars, pinVars, shareVars, signVars, natsVars>>
  /\ UNCHANGED <<poolVars, regVars, pushVars, moreVars>>

\* the server answers the request m, written to a socket that is still open
\* and that it has accepted
SockRespond(m) ==
  /\ url \in AllowedPaths
  /\ sendCalls[m].pc = "reading"
  /\ sendCalls[m].wrote # 0
  /\ ReadyState(sendCalls[m].wrote) = "open"
  /\ sendCalls' = [sendCalls EXCEPT ![m].pc = "answered"]
  /\ UNCHANGED <<socket, sockets, closeCalls, onCloseFired>>
  /\ UNCHANGED <<url, connVars, pinVars, shareVars, signVars, natsVars>>
  /\ UNCHANGED <<poolVars, regVars, pushVars, moreVars>>

\* the read of the first response of request m gives up after responseTimeout
SockReadTimeout(m) ==
  /\ sendCalls[m].pc = "reading"
  /\ sendCalls' = [sendCalls EXCEPT ![m].pc = "failed", ![m].error = ReadTimeoutError]
  /\ UNCHANGED <<socket, sockets, closeCalls, onCloseFired>>
  /\ UNCHANGED <<url, connVars, pinVars, shareVars, signVars, natsVars>>
  /\ UNCHANGED <<poolVars, regVars, pushVars, moreVars>>

\* a ClientWebSocketTransport just constructed
SockInit ==
  /\ OnlyLifecycle
  /\ NoMore
  /\ NoPool
  /\ NoServer
  /\ NoPush
  /\ url \in Urls
  /\ socket = 0
  /\ sockets = <<>>
  /\ sendCalls = [m \in SendIds |-> IdleSend]
  /\ closeCalls = <<>>
  /\ onCloseFired = <<>>

SockNext ==
  \/ \E m \in SendIds : WsSend(m)
  \/ WsClose
  \/ \E s \in 1..Len(sockets) : SockOpen(s)
  \/ \E m \in SendIds : ResumeJoined(m)
  \/ \E m \in SendIds : ResumeOpened(m)
  \/ \E s \in 1..Len(sockets) : SockFail(s)
  \/ \E s \in 1..Len(sockets) : SockErrorEvent(s)
  \/ \E s \in 1..Len(sockets) : PeerClose(s)
  \/ \E s \in 1..Len(sockets) : SockCloseEvent(s)
  \/ \E m \in SendIds : SockRespond(m)
  \/ \E m \in SendIds : SockReadTimeout(m)

SockSpec == SockInit /\ [][SockNext]_vars

(***************************************************************************)
(* WebSocketMessageServer and ServerWebSocketTransport.  The id of a       *)
(* connection is the index of its socket: connection ids are fresh uuids.  *)
(***************************************************************************)

MaxServerSockets == 3

MaxTransportCloses == 2

\* the socket of an upgrade on a path of the allow-list: a connection is
\* registered for it
AcceptedSocket(path) ==
  [path |-> path, readyState |-> "open", accepted |-> TRUE, code |-> 0, reason |-> "",
   requests |-> 0]

\* the socket of an upgrade on another path: socket.close(1008, reason)
RejectedSocket(path) ==
  [path |-> path, readyState |-> "closing", accepted |-> FALSE, code |-> 1008,
   reason |-> UnsupportedPath(path), requests |-> 0]

HookCall(hook, conn) == [hook |-> hook, conn |-> conn]

\* socket.close() on a server socket: an open socket starts closing; a
\* closing or closed socket is left as it is
SocketClosed(sock) ==
  IF sock.readyState = "open" THEN [sock EXCEPT !.readyState = "closing"] ELSE sock

\* the ids of the registry in the order of their insertion
RECURSIVE InOrder(_)
InOrder(ids) ==
  IF ids = {} THEN <<>>
  ELSE LET least == CHOOSE c \in ids : \A d \in ids : c <= d
       IN <<least>> \o InOrder(ids \ {least})

\* the "connection" listener installed by start
RegConnection(path) ==
  /\ wss = "listening"
  /\ Len(serverSockets) < MaxServerSockets
  /\ IF path \notin AllowedPaths
     THEN /\ serverSockets' = Append(serverSockets, RejectedSocket(path))
          /\ UNCHANGED <<connectionsById, hookCalls>>
     ELSE /\ serverSockets' = Append(serverSockets, AcceptedSocket(path))
          /\ connectionsById' = connectionsById \cup {Len(serverSockets) + 1}
          /\ hookCalls' = Append(hookCalls, HookCall("onConnect", Len(serverSockets) + 1))
  /\ UNCHANGED <<wss, serverClose, transportCloses>>
  /\ UNCHANGED <<connVars, pinVars, shareVars, signVars, natsVars>>
  /\ UNCHANGED <<poolVars, sockVars, pushVars, moreVars>>

\* a request arrives on a socket with a connection: connection.onReceive
RegReceive(s) ==
  /\ serverSockets[s].accepted
  /\ serverSockets[s].readyState = "open"
  /\ serverSockets[s].requests = 0
  /\ serverSockets' = [serverSockets EXCEPT ![s].requests = 1]
  /\ hookCalls' = Append(hookCalls, HookCall("onReceive", s))
  /\ UNCHANGED <<wss, connectionsById, serverClose, transportCloses>>
  /\ UNCHANGED <<connVars, pinVars, shareVars, signVars, natsVars>>
  /\ UNCHANGED <<poolVars, sockVars, pushVars, moreVars>>

\* the client closes socket s
RegClientCloses(s) ==
  /\ serverSockets[s].readyState = "open"
  /\ serverSockets' = [serverSockets EXCEPT ![s].readyState = "closing"]
  /\ UNCHANGED <<wss, connectionsById, hookCalls, serverClose, transportCloses>>
  /\ UNCHANGED <<connVars, pinVars, shareVars, signVars, natsVars>>
  /\ UNCHANGED <<poolVars, sockVars, pushVars, moreVars>>

\* ServerWebSocketTransport.close() called by the application on the
\* transport of connection s
RegTransportClose(s) ==
  /\ serverSockets[s].accepted
  /\ Len(transportCloses) < MaxTransportCloses
  /\ transportCloses' = Append(transportCloses, [on |-> s, resolved |-> FALSE])
  /\ serverSockets' = [serverSockets EXCEPT ![s] = SocketClosed(@)]
  /\ UNCHANGED <<wss, connectionsById, hookCalls, serverClose>>
  /\ UNCHANGED <<connVars, pinVars, shareVars, signVars, natsVars>>
  /\ UNCHANGED <<poolVars, sockVars, pushVars, moreVars>>

\* WebSocketMessageServer.close() up to its first await: the connections
\* are listed
RegServerClose ==
  /\ serverClose.pc = "idle"
  /\ serverClose' = [pc |-> "loop", connections |-> InOrder(connectionsById), i |-> 1]
  /\ UNCHANGED <<wss, serverSockets, connectionsById, hookCalls, transportCloses>>
  /\ UNCHANGED <<connVars, pinVars, shareVars, signVars, natsVars>>
  /\ UNCHANGED <<poolVars, sockVars, pushVars, moreVars>>

\* close() goes on: transport.close() of the next connection listed, or
\* wss.close once the loop is over; wss.close leaves the sockets open or
\* terminates them, depending on the version of the socket library
RegServerCloseStep ==
  /\ serverClose.pc = "loop"
  /\ IF serverClose.i <= Len(serverClose.connections)
     THEN /\ serverClose' = [serverClose EXCEPT !.pc = "awaitTransport"]
          /\ serverSockets' =
               [serverSockets EXCEPT ![serverClose.connections[serverClose.i]] =
                  SocketClosed(@)]
          /\ UNCHANGED wss
     ELSE /\ serverClose' = [serverClose EXCEPT !.pc = "resolved"]
          /\ wss' = "closed"
          /\ \/ UNCHANGED serverSockets
             \/ serverSockets' =
                  [s \in 1..Len(serverSockets) |-> SocketClosed(serverSockets[s])]
  /\ UNCHANGED <<connectionsById, hookCalls, transportCloses>>
  /\ UNCHANGED <<connVars, pinVars, shareVars, signVars, natsVars>>
  /\ UNCHANGED <<poolVars, sockVars, pushVars, moreVars>>

\* the close event of server socket s: the listener start installed, then
\* the listeners of the close() calls on its transport
RegCloseEvent(s) ==
  /\ serverSockets[s].readyState = "closing"
  /\ serverSockets' = [serverSockets EXCEPT ![s].readyState = "closed"]
  /\ IF serverSockets[s].accepted
     THEN /\ connectionsById' = connectionsById \ {s}
          /\ hookCalls' = Append(hookCalls, HookCall("onDisconnect", s))
     ELSE UNCHANGED <<connectionsById, hookCalls>>
  /\ transportCloses' =
       [k \in 1..Len(transportCloses) |->
          IF transportCloses[k].on = s THEN [transportCloses[k] EXCEPT !.resolved = TRUE]
          ELSE transportCloses[k]]
  /\ serverClose' =
       IF /\ serverClose.pc = "awaitTransport"
          /\ serverClose.connections[serverClose.i] = s
       THEN [serverClose EXCEPT !.pc = "loop", !.i = @ + 1]
       ELSE serverClose
  /\ UNCHANGED wss
  /\ UNCHANGED <<connVars, pinVars, shareVars, signVars, natsVars>>
  /\ UNCHANGED <<poolVars, sockVars, pushVars, moreVars>>

\* a WebSocketMessageServer just constructed
RegInit ==
  /\ OnlyLifecycle
  /\ NoMore
  /\ NoPool
  /\ NoClientSocket
  /\ NoPush
  /\ wss = "listening"
  /\ serverSockets = <<>>
  /\ connectionsById = {}
  /\ hookCalls = <<>>
  /\ serverClose = [pc |-> "idle", connections |-> <<>>, i |-> 0]
  /\ transportCloses = <<>>

RegNext ==
  \/ \E path \in Urls : RegConnection(path)
  \/ \E s \in 1..Len(serverSockets) : RegReceive(s)
  \/ \E s \in 1..Len(serverSockets) : RegClientCloses(s)
  \/ \E s \in 1..Len(serverSockets) : RegTransportClose(s)
  \/ RegServerClose
  \/ RegServerCloseStep
  \/ \E s \in 1..Len(serverSockets) : RegCloseEvent(s)

RegSpec == RegInit /\ [][RegNext]_vars

(***************************************************************************)
(* The "connection" listener with an onConnect handler that takes time:    *)
(* `await this.onConnect(connection, req)` is the listener's last line,    *)
(* after the message and close listeners of the socket are installed.      *)
(***************************************************************************)

\* hook has been entered in hookCalls for connection s
Called(hook, s) == \E k \in 1..Len(hookCalls) : hookCalls[k] = HookCall(hook, s)

\* the promise onConnect returned for connection s settles
RegConnectDone(s) ==
  /\ Called("onConnect", s)
  /\ ~Called("onConnectDone", s)
  /\ hookCalls' = Append(hookCalls, HookCall("onConnectDone", s))
  /\ UNCHANGED <<wss, serverSockets, connectionsById, serverClose, transportCloses>>
  /\ UNCHANGED <<connVars, pinVars, shareVars, signVars, natsVars>>
  /\ UNCHANGED <<poolVars, sockVars, pushVars, moreVars>>

ConnectNext ==
  \/ \E path \in Urls : RegConnection(path)
  \/ \E s \in 1..Len(serverSockets) : RegConnectDone(s)
  \/ \E s \in 1..Len(serverSockets) : RegReceive(s)
  \/ \E s \in 1..Len(serverSockets) : RegClientCloses(s)
  \/ \E s \in 1..Len(serverSockets) : RegCloseEvent(s)

ConnectSpec == RegInit /\ [][ConnectNext]_vars

(***************************************************************************)
(* The subject cache of the pub/sub transports (NATSTransport.send and     *)
(* LocalPubSubTransport.send): a requester's and a responder's transport.  *)
(***************************************************************************)

\* the conversations held
MaxConvs == 2

PubSubTransports == {"requester", "responder"}

\* options.publishSubject of the responder's transport: a string, a function
\* of the message, or a function that returns undefined for error messages
PublishSubjects == {"fixed", "byType", "partial"}

\* what the responder's handler does: returns a value, returns a stream of
\* 0, 1 or 2 items, or throws
HandlerKinds == {"value", "stream0", "stream1", "stream2", "throws"}

NoSubject == "undefined"

\* the messages handleRequest sends for a handler of the kind
ResponsesFor(kind) ==
  CASE kind = "value" -> <<"response">>
    [] kind = "stream0" -> <<"end">>
    [] kind = "stream1" -> <<"multi", "end">>
    [] kind = "stream2" -> <<"multi", "multi", "end">>
    [] OTHER -> <<"error">>

\* typeof publishSubject === "string" ? publishSubject : publishSubject(message)
Resolved(tr, t) ==
  IF tr = "requester" THEN "s1"
  ELSE CASE publishSubject = "fixed" -> "s2"
         [] publishSubject = "byType" -> IF t = "multi" THEN "s2.multi" ELSE "s2"
         [] OTHER -> IF t = "error" THEN NoSubject ELSE "s2"

\* the subject send takes for an end message too from publishSubject
SubjectForResolved(tr, t, c) == Resolved(tr, t)

\* the subject send takes for the message
SubjectFor(tr, t, c) ==
  IF t = "end"
  THEN IF c \in DOMAIN subjectById[tr] THEN subjectById[tr][c] ELSE NoSubject
  ELSE Resolved(tr, t)

\* send(message) on transport tr: it throws when no subject is found, and
\* else updates the cache and publishes
TransportSend(tr, t, c) ==
  LET subject == SubjectFor(tr, t, c)
  IN IF subject = NoSubject
     THEN /\ pubCalls' = Append(pubCalls, [from |-> tr, t |-> t, c |-> c, failed |-> TRUE])
          /\ UNCHANGED <<subjectById, published>>
     ELSE /\ pubCalls' = Append(pubCalls, [from |-> tr, t |-> t, c |-> c, failed |-> FALSE])
          /\ subjectById' =
               [subjectById EXCEPT ![tr] =
                  IF t = "end" THEN MapDelete(@, c) ELSE MapSet(@, c, subject)]
          /\ published' =
               Append(published, [from |-> tr, subject |-> subject, t |-> t, c |-> c])

\* the requester's connection sends request c
SubjRequest(c) ==
  /\ convs[c].stage = "idle"
  /\ \A d \in 1..(c - 1) : convs[d].stage # "idle"
  /\ TransportSend("requester", "request", c)
  /\ \E kind \in HandlerKinds :
       convs' = [convs EXCEPT ![c].stage = "responding", ![c].kind = kind]
  /\ UNCHANGED publishSubject
  /\ UNCHANGED <<connVars, pinVars, shareVars, signVars, natsVars>>
  /\ UNCHANGED <<poolVars, sockVars, regVars, pushVars, codecVars, forgeVars, marshalVars>>

\* a terminal message for c is among the messages published to the requester
TerminalPublished(msgs, c) ==
  \E k \in 1..Len(msgs) :
    /\ msgs[k].from = "responder" /\ msgs[k].c = c
    /\ msgs[k].t \in TerminalTypes

\* handleRequest of the responder's connection sends its next message for
\* c; respond does not await the send, so a failed send stops nothing
SubjRespond(c) ==
  /\ convs[c].stage = "responding"
  /\ convs[c].sent < Len(ResponsesFor(convs[c].kind))
  /\ TransportSend("responder", ResponsesFor(convs[c].kind)[convs[c].sent + 1], c)
  /\ convs' = [convs EXCEPT
       ![c].sent = @ + 1,
       ![c].endedBy = IF TerminalPublished(published', c) THEN "message" ELSE @]
  /\ UNCHANGED publishSubject
  /\ UNCHANGED <<connVars, pinVars, shareVars, signVars, natsVars>>
  /\ UNCHANGED <<poolVars, sockVars, regVars, pushVars, codecVars, forgeVars, marshalVars>>

\* the responder has sent everything and no terminal message was published:
\* the requester's read ends when responseTimeout has passed
SubjTimeout(c) ==
  /\ convs[c].stage = "responding"
  /\ convs[c].sent = Len(ResponsesFor(convs[c].kind))
  /\ convs[c].endedBy = "none"
  /\ convs' = [convs EXCEPT ![c].endedBy = "timeout"]
  /\ UNCHANGED <<publishSubject, subjectById, published, pubCalls>>
  /\ UNCHANGED <<connVars, pinVars, shareVars, signVars, natsVars>>
  /\ UNCHANGED <<poolVars, sockVars, regVars, pushVars, codecVars, forgeVars, marshalVars>>

\* two transports just constructed
SubjInit ==
  /\ OnlyLifecycle
  /\ NoPool /\ NoClientSocket /\ NoServer /\ NoPush
  /\ NoCodec /\ forged = <<>> /\ NoTransforms
  /\ publishSubject \in PublishSubjects
  /\ subjectById = [tr \in PubSubTransports |-> <<>>]
  /\ published = <<>>
  /\ pubCalls = <<>>
  /\ convs = [c \in 1..MaxConvs |->
               [stage |-> "idle", kind |-> "none", sent |-> 0, endedBy |-> "none"]]

SubjNext ==
  \/ \E c \in 1..MaxConvs : SubjRequest(c)
  \/ \E c \in 1..MaxConvs : SubjRespond(c)
  \/ \E c \in 1..MaxConvs : SubjTimeout(c)

SubjSpec == SubjInit /\ [][SubjNext]_vars

(***************************************************************************)
(* The payload transforms (MessageConnection.marshalMessage and            *)
(* unmarshalMessage) of a requesting and a responding connection.          *)
(* Payloads are numbers.                                                   *)
(***************************************************************************)

\* the payloads passed to request() and returned by the handler
TransformPayloads == 1..4

\* the pairs of transforms: none given, and a pair that are inverses of each
\* other
Transforms == {"default", "shift"}

\* marshalPayload(payload); the default is p => p
marshalPayload(payload) == IF transform = "shift" THEN payload + 10 ELSE payload

\* unmarshalPayload(payload); the default is p => p
unmarshalPayload(payload) == IF transform = "shift" THEN payload - 10 ELSE payload

\* marshalMessage(message)
marshalMessage(message) ==
  IF message.t \in {"request", "response", "multi"}
  THEN [message EXCEPT !.p = marshalPayload(message.p)]
  ELSE message

\* unmarshalMessage(message)
unmarshalMessage(message) ==
  IF message.t \in {"request", "response", "multi"}
  THEN [message EXCEPT !.p = unmarshalPayload(message.p)]
  ELSE message

\* the transforms a connection applied to a message of type t
Step(conn, t, applied) == [conn |-> conn, t |-> t, applied |-> applied]

\* doRequest: the request is built from the payload, signed and handed to
\* the transport
MarshalRequest(payload) ==
  /\ wire = <<>> /\ steps = <<>>
  /\ requested' = payload
  /\ wire' = <<[t |-> "request", p |-> payload]>>
  /\ steps' = <<Step(ClientId, "request", <<"sign">>)>>
  /\ UNCHANGED <<transform, handlerArg, handlerResult, clientGot>>
  /\ UNCHANGED <<connVars, pinVars, shareVars, signVars, natsVars>>
  /\ UNCHANGED <<poolVars, sockVars, regVars, pushVars, codecVars, forgeVars, subjVars>>

\* the transport callback of the responding connection: the request is
\* verified, unmarshalled and passed to handleRequest
MarshalHandle ==
  /\ Len(wire) = 1 /\ Len(steps) = 1
  /\ handlerArg' = unmarshalMessage(wire[1]).p
  /\ steps' = Append(steps, Step(ServerId, "request", <<"verify", "unmarshalPayload">>))
  /\ UNCHANGED <<transform, wire, requested, handlerResult, clientGot>>
  /\ UNCHANGED <<connVars, pinVars, shareVars, signVars, natsVars>>
  /\ UNCHANGED <<poolVars, sockVars, regVars, pushVars, codecVars, forgeVars, subjVars>>

\* handleRequest: respond with the handler's result, as a response or as a
\* multi message
MarshalRespond(payload, t) ==
  /\ Len(wire) = 1 /\ Len(steps) = 2
  /\ handlerResult' = payload
  /\ wire' = Append(wire, marshalMessage([t |-> t, p |-> payload]))
  /\ steps' = Append(steps, Step(ServerId, t, <<"marshalPayload", "sign">>))
  /\ UNCHANGED <<transform, handlerArg, requested, clientGot>>
  /\ UNCHANGED <<connVars, pinVars, shareVars, signVars, natsVars>>
  /\ UNCHANGED <<poolVars, sockVars, regVars, pushVars, codecVars, forgeVars, subjVars>>

\* the transport callback of the requesting connection: the response is
\* verified, unmarshalled and put in the queue, from which the caller gets
\* its payload
MarshalReturn ==
  /\ Len(wire) = 2 /\ Len(steps) = 3
  /\ clientGot' = unmarshalMessage(wire[2]).p
  /\ steps' = Append(steps, Step(ClientId, wire[2].t, <<"verify", "unmarshalPayload">>))
  /\ UNCHANGED <<transform, wire, handlerArg, requested, handlerResult>>
  /\ UNCHANGED <<connVars, pinVars, shareVars, signVars, natsVars>>
  /\ UNCHANGED <<poolVars, sockVars, regVars, pushVars, codecVars, forgeVars, subjVars>>

\* two connections constructed with the same pair of transforms
MarshalInit ==
  /\ OnlyLifecycle
  /\ NoPool /\ NoClientSocket /\ NoServer /\ NoPush
  /\ NoCodec /\ forged = <<>> /\ NoSubjects
  /\ transform \in Transforms
  /\ wire = <<>>
  /\ steps = <<>>
  /\ handlerArg = 0
  /\ requested = 0
  /\ handlerResult = 0
  /\ clientGot = 0

MarshalNext ==
  \/ \E payload \in TransformPayloads : MarshalRequest(payload)
  \/ MarshalHandle
  \/ \E payload \in TransformPayloads, t \in {"response", "multi"} : MarshalRespond(payload, t)
  \/ MarshalReturn

MarshalSpec == MarshalInit /\ [][MarshalNext]_vars

(***************************************************************************)
(* The annotation codec on its own (serialize.ts): deannotate(annotate(x)) *)
(***************************************************************************)

\* the longest array annotated
MaxArray == 2

\* the values without parts: strings (plain, ISO-8601-looking, ending with
\* the date mark, the date mark alone, empty), numbers, booleans, null, dates
CodecAtoms ==
  {JsStr(<<"bar">>), JsStr(<<"2025-03-22T11:53:26.424Z">>),
   JsStr(<<"2025-03-22T11:53:26.424">>), JsStr(<<"t0", DateMark>>), JsStr(<<DateMark>>),
   JsStr(<<>>), JsNum(0), JsNum(5), JsBool(TRUE), JsBool(FALSE), JsNull,
   JsDate(<<"2025-03-22T11:53:26.424Z">>)}

\* the sequences over set of length up to n
SeqsUpTo(set, n) == UNION {[1..k -> set] : k \in 0..n}

\* arrays of atoms, mappings of atoms and of arrays, arrays of mappings
CodecValues ==
  LET arrays == {JsArr(items) : items \in SeqsUpTo(CodecAtoms, MaxArray)}
      small == {JsArr(items) : items \in SeqsUpTo(CodecAtoms, 1)}
      mappings == {JsMap(<<"date">>, <<v>>) : v \in CodecAtoms \cup small}
                  \cup {JsMap(<<"foo", "nums">>, <<v, w>>) : v \in CodecAtoms, w \in small}
  IN CodecAtoms \cup arrays \cup mappings \cup {JsArr(<<m>>) : m \in mappings}

\* annotate(val) is called
CodecAnnotate ==
  /\ codecStage = "input"
  /\ codecWire' = annotate(codecInput)
  /\ codecStage' = "annotated"
  /\ UNCHANGED <<codecInput, codecOutput>>
  /\ UNCHANGED <<connVars, pinVars, shareVars, signVars, natsVars>>
  /\ UNCHANGED <<poolVars, sockVars, regVars, pushVars, forgeVars, subjVars, marshalVars>>

\* deannotate is called with what annotate returned
CodecDeannotate ==
  /\ codecStage = "annotated"
  /\ codecOutput' = deannotate(codecWire)
  /\ codecStage' = "deannotated"
  /\ UNCHANGED <<codecInput, codecWire>>
  /\ UNCHANGED <<connVars, pinVars, shareVars, signVars, natsVars>>
  /\ UNCHANGED <<poolVars, sockVars, regVars, pushVars, forgeVars, subjVars, marshalVars>>

CodecInit ==
  /\ OnlyLifecycle
  /\ NoPool /\ NoClientSocket /\ NoServer /\ NoPush
  /\ codecStage = "input"
  /\ codecInput \in CodecValues
  /\ codecWire = JsUndefined
  /\ codecOutput = JsUndefined
  /\ forged = <<>>
  /\ NoSubjects
  /\ NoTransforms

CodecNext == CodecAnnotate \/ CodecDeannotate

CodecSpec == CodecInit /\ [][CodecNext]_vars

(***************************************************************************)
(* WebSocketMessageClient: the shared instances and their receive handlers *)
(***************************************************************************)

MaxPushes == 3

ClientUrls == {"u1", "u2"}

ReceiveHandlerNames == {"h1", "h2"}

\* what a call of a receive handler ends with
Outcomes == {"value", "undefined", "throws"}

\* handler h is in sequence seq
Has(seq, h) == \E k \in 1..Len(seq) : seq[k] = h

HandlerCall(h, p) == [handler |-> h, push |-> p, ended |-> FALSE]

\* the error response handleRequest sends when onReceive rejects
PushError(p) == [c |-> p, t |-> "error"]

\* WebSocketMessageClient.create(u): the instance of u, made on the first call
WsCreate(u) ==
  /\ u \notin wsClients
  /\ wsClients' = wsClients \cup {u}
  /\ UNCHANGED <<receiveHandlers, pushes, handlerCalls, pushResponses>>
  /\ UNCHANGED <<connVars, pinVars, shareVars, signVars, natsVars>>
  /\ UNCHANGED <<poolVars, sockVars, regVars, moreVars>>

\* addReceiveHandler(h) on the instance of u: Set.add, which leaves a set
\* that has h as it is
AddReceiveHandler(u, h) ==
  /\ u \in wsClients
  /\ ~Has(receiveHandlers[u], h)
  /\ receiveHandlers' = [receiveHandlers EXCEPT ![u] = Append(@, h)]
  /\ UNCHANGED <<wsClients, pushes, handlerCalls, pushResponses>>
  /\ UNCHANGED <<connVars, pinVars, shareVars, signVars, natsVars>>
  /\ UNCHANGED <<poolVars, sockVars, regVars, moreVars>>

\* a request arrives at the instance of u: handleRequest calls onReceive,
\* which runs up to the await of the first handler's result
PushArrives(u) ==
  /\ u \in wsClients
  /\ Len(pushes) < MaxPushes
  /\ LET p == Len(pushes) + 1
     IN IF receiveHandlers[u] = <<>>
        THEN /\ pushes' = Append(pushes, [to |-> u, registered |-> <<>>, at |-> 0,
                                            state |-> "done"])
             /\ UNCHANGED handlerCalls
        ELSE /\ pushes' = Append(pushes, [to |-> u, registered |-> receiveHandlers[u],
                                            at |-> 1, state |-> "running"])
             /\ handlerCalls' = Append(handlerCalls, HandlerCall(receiveHandlers[u][1], p))
  /\ UNCHANGED <<wsClients, receiveHandlers, pushResponses>>
  /\ UNCHANGED <<connVars, pinVars, shareVars, signVars, natsVars>>
  /\ UNCHANGED <<poolVars, sockVars, regVars, moreVars>>

\* the handler running for request p ends: onReceive goes on to the next
\* handler of the set, returns undefined after the last, or rejects when the
\* handler threw, and handleRequest then responds with an error
HandlerEnds(p, outcome) ==
  /\ pushes[p].state = "running"
  /\ LET u == pushes[p].to
         ended == [k \in 1..Len(handlerCalls) |->
                    IF handlerCalls[k].push = p THEN [handlerCalls[k] EXCEPT !.ended = TRUE]
                    ELSE handlerCalls[k]]
     IN IF outcome = "throws"
        THEN /\ pushes' = [pushes EXCEPT ![p].state = "failed"]
             /\ handlerCalls' = ended
             /\ pushResponses' = Append(pushResponses, PushError(p))
        ELSE IF pushes[p].at < Len(receiveHandlers[u])
        THEN /\ pushes' = [pushes EXCEPT ![p].at = @ + 1]
             /\ handlerCalls' =
                  Append(ended, HandlerCall(receiveHandlers[u][pushes[p].at + 1], p))
             /\ UNCHANGED pushResponses
        ELSE /\ pushes' = [pushes EXCEPT ![p].state = "done"]
             /\ handlerCalls' = ended
             /\ UNCHANGED pushResponses
  /\ UNCHANGED <<wsClients, receiveHandlers>>
  /\ UNCHANGED <<connVars, pinVars, shareVars, signVars, natsVars>>
  /\ UNCHANGED <<poolVars, sockVars, regVars, moreVars>>

\* no instance has been created
PushInit ==
  /\ OnlyLifecycle
  /\ NoMore
  /\ NoPool
  /\ NoClientSocket
  /\ NoServer
  /\ wsClients = {}
  /\ receiveHandlers = [u \in ClientUrls |-> <<>>]
  /\ pushes = <<>>
  /\ handlerCalls = <<>>
  /\ pushResponses = <<>>

PushNext ==
  \/ \E u \in ClientUrls : WsCreate(u)
  \/ \E u \in ClientUrls, h \in ReceiveHandlerNames : AddReceiveHandler(u, h)
  \/ \E u \in ClientUrls : PushArrives(u)
  \/ \E p \in 1..Len(pushes), outcome \in Outcomes : HandlerEnds(p, outcome)

PushSpec == PushInit /\ [][PushNext]_vars

(***************************************************************************)
(* Properties.                                                             *)
(***************************************************************************)

EndPayload == JsStr(<<"END">>)

\* the messages the server handed to the transport for conversation c
SentFor(c) == IF c \in DOMAIN handlers THEN handlers[c].responses ELSE <<>>

\* the caller's call expects a response and has been issued
Expecting(p) == call[p].kind \in {"requestOne", "requestMulti"}

\* every value the call has given to the application
ValuesGiven(p) ==
  {call[p].yielded[i] : i \in 1..Len(call[p].yielded)}
  \cup (IF call[p].pc = "done" /\ call[p].kind = "requestOne"
        THEN {call[p].returned} ELSE {})

\* every payload the handler produces in answer to caller p's request
AnswersTo(p) ==
  {HandlerValue(onReceive, PayloadOf(p)), EndPayload}
  \cup {HandlerItem(onReceive, PayloadOf(p), i) : i \in 1..onReceive.n}

\* C1: responses of concurrent requests arriving interleaved are routed by c:
\* every queue holds only messages of its own c, the messages a call has read
\* are, in order, the first messages the server sent for the call's own c
\* (all of them once the call has ended on a terminal message), and every
\* value the call gives to the application answers its own request.
C1_RoutedByConversation ==
  /\ \A c \in DOMAIN responseQueues :
       \A i \in 1..Len(responseQueues[c].items) : responseQueues[c].items[i].c = c
  /\ \A p \in Callers :
       /\ \A i \in 1..Len(call[p].responses) : call[p].responses[i].c = call[p].c
       /\ IsPrefix(call[p].responses, SentFor(call[p].c))
       /\ ValuesGiven(p) \subseteq AnswersTo(p)
       /\ (Expecting(p) /\ call[p].pc \in {"done", "failed"}
             /\ call[p].thrown # TimeoutError)
            => call[p].responses = SentFor(call[p].c)

\* two calls are streaming at once and a message waits in the queue of each
C1_Witness ==
  /\ call["p"].pc = "streaming" /\ call["q"].pc = "streaming"
  /\ call["p"].c = 2 /\ call["q"].c = 1
  /\ ReadReady(responseQueues[1]) /\ ReadReady(responseQueues[2])
  /\ Len(call["p"].responses) = 2 /\ Len(call["q"].responses) = 1

\* the handler returns a stream that yields its items and then finishes
FinishingStream == onReceive.kind = "stream" /\ onReceive.err = NoErr

\* C2: when the handler returns a stream that yields n >= 0 items and then
\* finishes, the sequence requestMulti returns yields exactly those n
\* payloads in the handler's order and then terminates, and it never yields
\* the payload of the end message.
C2_RequestMultiYieldsItems ==
  \A p \in Callers :
    (call[p].kind = "requestMulti" /\ FinishingStream) =>
      /\ IsPrefix(call[p].yielded, HandlerItems(onReceive, PayloadOf(p)))
      /\ call[p].pc = "done" =>
           call[p].yielded = HandlerItems(onReceive, PayloadOf(p))
      /\ \A i \in 1..Len(call[p].yielded) : call[p].yielded[i] # EndPayload

\* C2 for the streams that yield at least one item
C2_NonEmptyStreamYieldsItems ==
  \A p \in Callers :
    (call[p].kind = "requestMulti" /\ FinishingStream /\ onReceive.n >= 1) =>
      /\ IsPrefix(call[p].yielded, HandlerItems(onReceive, PayloadOf(p)))
      /\ call[p].pc = "done" =>
           call[p].yielded = HandlerItems(onReceive, PayloadOf(p))

\* the messages seq is what handleRequest may send for one request
WellFormedResponses(c, seq) ==
  /\ \A i \in 1..Len(seq) : seq[i].c = c /\ seq[i].s = ServerId
  /\ \A i \in 1..Len(seq) : i < Len(seq) => seq[i].t = "multi"
  /\ \A i \in 1..Len(seq) : seq[i].t = "response" => Len(seq) = 1
  /\ \A i \in 1..Len(seq) : seq[i].t = "end" => seq[i].p = EndPayload
  /\ \A i \in 1..Len(seq) : seq[i].t \in TerminalTypes \cup {"multi"}

\* C3: for every request handled by handleRequest the messages handed to the
\* transport for its c are nothing, or one of response / error / anomaly, or
\* multi messages followed by one of end / error / anomaly (end carrying
\* "END"); nothing is sent after the terminal message, every message carries
\* the responder's s, and a handler that is done has sent nothing or has
\* ended with a terminal message.
C3_ResponderSequence ==
  \A c \in DOMAIN handlers :
    LET sent == handlers[c].responses
    IN /\ WellFormedResponses(c, sent)
       /\ IsSuffix(InFlight(c), sent)
       /\ (sent # <<>> /\ Last(sent).t \in TerminalTypes) => handlers[c].pc = "done"
       /\ handlers[c].pc = "done" => (sent = <<>> \/ Last(sent).t \in TerminalTypes)
       /\ (handlers[c].pc = "done" /\ onReceive.kind = "stream") => sent # <<>>

\* a handler has sent two multi messages and then the end message
C3_Witness ==
  \E c \in DOMAIN handlers :
    /\ handlers[c].pc = "done"
    /\ Len(handlers[c].responses) = 3
    /\ handlers[c].responses[1].t = "multi"
    /\ handlers[c].responses[3].t = "end"

\* the call of caller p has ended without a timeout
EndedWithoutTimeout(p) ==
  call[p].pc \in {"done", "failed"} /\ call[p].thrown # TimeoutError

\* C4: the kind of failure is preserved across the wire: when the handler
\* throws Anomaly(m, info), requestOne throws an Anomaly with message m and
\* the same info; when it throws another error with message m, requestOne
\* throws a non-Anomaly error with message m; requestOne returns no value.
C4_FailurePreserved ==
  \A p \in Callers :
    (call[p].kind = "requestOne" /\ onReceive.kind = "throw" /\ EndedWithoutTimeout(p)) =>
      /\ call[p].pc = "failed"
      /\ call[p].returned = JsUndefined
      /\ call[p].thrown.name = onReceive.err.name
      /\ call[p].thrown.message = onReceive.err.message
      /\ call[p].thrown.info = onReceive.err.info

\* C4 for the errors whose message is not the empty string
C4_NonEmptyMessagePreserved ==
  \A p \in Callers :
    (call[p].kind = "requestOne" /\ onReceive.kind = "throw" /\ EndedWithoutTimeout(p)
       /\ onReceive.err.message # <<>>) =>
      /\ call[p].pc = "failed"
      /\ call[p].returned = JsUndefined
      /\ call[p].thrown = onReceive.err

\* C5: when the handler returns a stream of n >= 1 items, requestOne returns
\* the first yielded item, only after it has read the whole stream up to the
\* terminal message, and then no queue is registered for the call's c.
C5_RequestOneDrainsStream ==
  \A p \in Callers :
    (call[p].kind = "requestOne" /\ FinishingStream /\ onReceive.n >= 1) =>
      /\ call[p].pc # "done" => call[p].returned = JsUndefined
      /\ call[p].pc = "done" =>
           /\ call[p].returned = HandlerItem(onReceive, PayloadOf(p), 1)
           /\ call[p].yielded = HandlerItems(onReceive, PayloadOf(p))
           /\ Last(call[p].responses).t = "end"
           /\ call[p].responses = SentFor(call[p].c)
           /\ call[p].c \notin DOMAIN responseQueues

\* requestOne has returned from a stream of two items
C5_Witness ==
  \E p \in Callers :
    /\ call[p].kind = "requestOne" /\ call[p].pc = "done"
    /\ FinishingStream /\ onReceive.n = 2
    /\ Len(call[p].responses) = 3

\* no request of conversation c is in flight to the server
NotInFlight(c) == \A m \in toServer : m.c # c

\* C6: send transmits exactly one request message (in flight, or received by
\* the server), no queue is ever registered for its c, it completes when
\* transport.send completes without waiting for a response and returns
\* nothing, and a response received later for its c changes neither the
\* queue map nor the call.
C6_SendIsFireAndForget ==
  /\ [](\A p \in Callers : call[p].kind = "send" =>
          /\ call[p].c \notin DOMAIN responseQueues
          /\ call[p].pc \in {"sending", "done"}
          /\ call[p].responses = <<>> /\ call[p].yielded = <<>>
          /\ call[p].returned = JsUndefined /\ call[p].thrown = NoErr
          /\ NotInFlight(call[p].c) <=> call[p].c \in DOMAIN handlers)
  /\ [][\A p \in Callers :
          (call[p].kind = "send" /\ InFlight(call[p].c) # <<>>
             /\ toClient'[call[p].c] = Tail(toClient[call[p].c]))
            => (responseQueues' = responseQueues /\ call' = call)]_vars

\* a send has completed and the response the handler returned for it has
\* been delivered to the client connection
C6_Witness ==
  \E p \in Callers :
    /\ call[p].kind = "send" /\ call[p].pc = "done"
    /\ SentFor(call[p].c) # <<>>
    /\ InFlight(call[p].c) = <<>>

(***************************************************************************)
(* Timeouts.  The event loop runs every continuation that is ready and     *)
(* every timer that is due: a read that has an item returns it, a read     *)
(* whose deadline has passed fails.                                        *)
(***************************************************************************)
FairSpec ==
  /\ Spec
  /\ \A p \in Callers : WF_vars(ReadFirst(p)) /\ WF_vars(FirstReadTimeout(p))

\* the first read of caller p's call timed out
FirstReadTimedOut(p) ==
  call[p].thrown = TimeoutError /\ call[p].firstMsg = NoMsg

\* a read of caller p's stream timed out
StreamTimedOut(p) ==
  call[p].thrown = TimeoutError /\ call[p].firstMsg # NoMsg

\* C7: a call that waits for its first response does not wait forever, and
\* when it stops waiting while no response has arrived it fails with the
\* timeout error and returns no value.
C7_FirstReadTimesOut ==
  /\ \A p \in Callers : (call[p].pc = "awaitFirst") ~> (call[p].pc # "awaitFirst")
  /\ [][\A p \in Callers :
          (call[p].pc = "awaitFirst" /\ ~ReadReady(responseQueues[call[p].c])
             /\ call'[p] # call[p])
            => /\ call'[p].pc = "failed"
               /\ call'[p].thrown = TimeoutError
               /\ call'[p].returned = JsUndefined
               /\ call'[p].yielded = <<>>]_vars

\* a call has failed with the timeout error at its first read
C7_Witness ==
  \E p \in Callers : call[p].pc = "failed" /\ FirstReadTimedOut(p)

\* C8: after a request has failed because its first response did not arrive
\* within responseTimeout, responseQueues has no entry for its c.
C8_NoQueueAfterFirstTimeout ==
  \A p \in Callers :
    FirstReadTimedOut(p) => call[p].c \notin DOMAIN responseQueues

\* C9: when a read of a streamed response times out, the sequence fails with
\* the timeout error at that read (nothing more is yielded) and afterwards
\* responseQueues has no entry for the call's c; while the stream is being
\* read its queue is registered with the response timeout as its deadline.
C9_StreamReadTimesOut ==
  /\ [](\A p \in Callers :
          /\ StreamTimedOut(p) =>
               /\ call[p].pc = "failed"
               /\ call[p].c \notin DOMAIN responseQueues
          /\ call[p].pc = "streaming" =>
               /\ call[p].c \in DOMAIN responseQueues
               /\ responseQueues[call[p].c].maxWaitTime = DEFAULT_RESPONSE_TIMEOUT)
  /\ [][\A p \in Callers :
          (call[p].pc = "streaming" /\ ReadExpires(responseQueues[call[p].c])
             /\ call'[p] # call[p])
            => /\ call'[p].pc = "failed"
               /\ call'[p].thrown = TimeoutError
               /\ call'[p].yielded = call[p].yielded
               /\ call[p].c \notin DOMAIN responseQueues']_vars

\* a stream has failed with the timeout error after yielding an item
C9_Witness ==
  \E p \in Callers :
    /\ call[p].pc = "failed" /\ StreamTimedOut(p)
    /\ Len(call[p].yielded) >= 1
    /\ call[p].c \notin DOMAIN responseQueues

\* the terminal messages among the messages caller p's call has read
TerminalsObserved(p) ==
  {i \in 1..Len(call[p].responses) : call[p].responses[i].t \in TerminalTypes}

\* caller p's call has ended on its terminal message
EndedOnTerminal(p) ==
  \/ call[p].pc = "done"
  \/ call[p].pc = "failed" /\ call[p].thrown.name \in {"Error", "Anomaly"}

Streamed(p) == call[p].firstMsg.t = "multi"

\* the stream of caller p has ended: normally, or by throwing a failure
StreamOver(p) == Streamed(p) /\ EndedOnTerminal(p)

\* C11: once the requester has observed the first multi message of a
\* conversation from source A, no message for that c from another source
\* influences the stream: every message the stream records, yields or throws
\* is from A, and when the stream is over the consumer has received every
\* message A sent, the last of them A's terminal message.
C11_SourcePinned ==
  \A p \in Callers : Streamed(p) =>
    /\ \A i \in 1..Len(call[p].responses) : call[p].responses[i].s = call[p].firstMsg.s
    /\ StreamOver(p) =>
         /\ Last(call[p].responses).t \in TerminalTypes
         /\ call[p].responses = ResponsesOf(call[p].firstMsg.s, RequestOf(p))

\* C11 for what the stream records: no message of another source is
\* recorded, yielded or thrown
C11_ForeignNeverObserved ==
  \A p \in Callers : Streamed(p) =>
    /\ \A i \in 1..Len(call[p].responses) : call[p].responses[i].s = call[p].firstMsg.s
    /\ IsPrefix(call[p].responses, ResponsesOf(call[p].firstMsg.s, RequestOf(p)))
    /\ IsPrefix(call[p].yielded, HandlerItems(onReceive, PayloadOf(p)))

\* a stream pinned to the first responder has ended although that responder
\* has not sent its terminal message yet
C11_ShortenedStream ==
  \E p \in Callers :
    /\ Streamed(p) /\ call[p].pc = "done"
    /\ call[p].firstMsg.s = ServerId
    /\ handlers[call[p].c].pc = "iterating"

\* the messages in the queue registered for c on connection conn
QueuedOn(conn, c) ==
  IF conn \in DOMAIN connQueues /\ c \in DOMAIN connQueues[conn]
  THEN connQueues[conn][c].items ELSE <<>>

\* the response to request c has been handed to the shared transport's
\* receive callback
ShareDelivered(c) ==
  /\ \A m \in shareToServer : m.c # c
  /\ \A m \in shareToClient : m.c # c

\* C12: two MessageConnections constructed over the same transport never
\* cross-route: the response to a conversation started by either connection
\* is delivered to the connection that started it, and to no other.
C12_NoCrossRouting ==
  \A i \in 1..Len(started) :
    LET request == started[i]
    IN /\ \A conn \in SharingConns \ {request.s} : QueuedOn(conn, request.c) = <<>>
       /\ ShareDelivered(request.c) =>
            QueuedOn(request.s, request.c)
              = <<Msg("response", request.c, ServerId,
                      HandlerValue(onReceive, request.p))>>

\* C12 for the connections that did not start the conversation: they hold
\* no message of it, and a queue holds only messages of its own c
C12_NeverMisrouted ==
  /\ \A i \in 1..Len(started) :
       \A conn \in SharingConns \ {started[i].s} : QueuedOn(conn, started[i].c) = <<>>
  /\ \A conn \in DOMAIN connQueues : \A c \in DOMAIN connQueues[conn] :
       \A k \in 1..Len(connQueues[conn][c].items) : connQueues[conn][c].items[k].c = c

\* C12 for the drop: a response whose c is not registered on the connection
\* that receives it leaves the state of every connection unchanged
C12_UnknownDropped ==
  [][\A message \in shareToClient :
       (shareToClient' = shareToClient \ {message}
          /\ message.c \notin DOMAIN connQueues[receive])
         => connQueues' = connQueues]_vars

\* the response to a request of the connection built first was handed to the
\* callback of the connection built second, and dropped
C12_LostResponse ==
  \E i \in 1..Len(started) :
    /\ started[i].s # receive
    /\ ShareDelivered(started[i].c)
    /\ QueuedOn(started[i].s, started[i].c) = <<>>

\* C13: conversation numbers are drawn from one process-wide generator: over
\* any interleaving of calls on the MessageConnection instances of the
\* process, the c values of the request messages are pairwise distinct and
\* strictly increasing in the order the calls started.
C13_IdsIncrease ==
  \A i, j \in 1..Len(started) : i < j => started[i].c < started[j].c

\* three calls have started, on two connections in turn
C13_Witness ==
  /\ Len(started) = 3
  /\ started[1].s # started[2].s
  /\ started[2].s # started[3].s

\* the handler returns a value (not a stream) or nothing
ValueHandler == onReceive.kind = "value"

\* C14: a receive handler that returns a falsy value other than undefined
\* (null, 0, false or the empty string) causes the responder to send one
\* response message carrying that value; only a handler that returns nothing
\* (undefined) causes no message to be sent.
C14_FalsyValueSent ==
  \A c \in DOMAIN handlers :
    (ValueHandler /\ handlers[c].pc = "done") =>
      LET result == HandlerValue(onReceive, handlers[c].request.p)
      IN IF result = JsUndefined
         THEN handlers[c].responses = <<>>
         ELSE handlers[c].responses = <<Msg("response", c, ServerId, result)>>

\* C14 for the truthy values and for undefined
C14_TruthyValueSent ==
  \A c \in DOMAIN handlers :
    (ValueHandler /\ handlers[c].pc = "done") =>
      LET result == HandlerValue(onReceive, handlers[c].request.p)
      IN /\ result = JsUndefined => handlers[c].responses = <<>>
         /\ Truthy(result) =>
              handlers[c].responses = <<Msg("response", c, ServerId, result)>>

\* a handler has returned a falsy value other than undefined and
\* handleRequest has finished without sending anything
C14_FalsyValueDropped ==
  \E c \in DOMAIN handlers :
    /\ ValueHandler /\ handlers[c].pc = "done"
    /\ HandlerValue(onReceive, handlers[c].request.p) \in {JsNull, JsNum(0), JsBool(FALSE)}
    /\ handlers[c].responses = <<>>

\* the conversation of caller p has reached its terminal message on both
\* sides: the responder has sent it and the requester has observed it
ConversationComplete(p) ==
  /\ Expecting(p) /\ EndedOnTerminal(p)
  /\ call[p].c \in DOMAIN handlers /\ handlers[call[p].c].pc = "done"

\* C15: for every conversation that reaches a terminal message, as its first
\* message or mid-stream, onConversation fires exactly once on the requester
\* and exactly once on the responder, each with the response messages in
\* wire order, and the two lists are the same; it never fires twice.
C15_OnConversationOnceEachSide ==
  \A p \in Callers :
    /\ Len(call[p].summaries) <= 1
    /\ ConversationComplete(p) =>
         /\ Len(call[p].summaries) = 1
         /\ Len(handlers[call[p].c].summaries) = 1
         /\ call[p].summaries[1] = SentFor(call[p].c)
         /\ handlers[call[p].c].summaries[1] = SentFor(call[p].c)

\* C15 for the conversations that do not end on a failure thrown by the
\* stream
C15_OnceUnlessStreamThrows ==
  \A p \in Callers :
    /\ Len(call[p].summaries) <= 1
    /\ call[p].c \in DOMAIN handlers => Len(handlers[call[p].c].summaries) <= 1
    /\ (ConversationComplete(p) /\ ~(Streamed(p) /\ call[p].pc = "failed")) =>
         /\ call[p].summaries = <<SentFor(call[p].c)>>
         /\ handlers[call[p].c].summaries = <<SentFor(call[p].c)>>

\* a stream has thrown the failure the responder sent after an item, and
\* onConversation has fired on the responder only
C15_RequesterHookSkipped ==
  \E p \in Callers :
    /\ ConversationComplete(p) /\ Streamed(p) /\ call[p].pc = "failed"
    /\ call[p].summaries = <<>>
    /\ Len(handlers[call[p].c].summaries) = 1

\* responseQueues of the receiving connection before the message arrives
SignQueuesAtStart == <<[NewQueue EXCEPT !.maxWaitTime = DEFAULT_RESPONSE_TIMEOUT]>>

\* the signature of the message is absent, or its digest is not the digest
\* of the message's other fields under the receiver's signSalt
BadSignature(message) ==
  \/ ~message.z.set
  \/ message.z.h # hashMessage(message, message.z.u, signCase.signSalt)

SameSalt == signCase.salt = signCase.signSalt

\* C17: verifyMessage(signMessage(m, salt), salt) succeeds for every message
\* m and salt, also after the signed message went through serialize then
\* deserialize; and changing any one of t, c, s, p or z of the signed
\* message, removing z, or verifying with a different salt makes
\* verifyMessage fail.
C17_SignRoundTrip ==
  Did("receive") =>
    /\ (Did("sign") /\ tampered = "none" /\ SameSalt) => verdict = "ok"
    /\ (~Did("sign") \/ tampered # "none" \/ ~SameSalt) => verdict = "failed"

\* the payload is a string that ends with the date mark
MarkedString(v) == deannotate(v) # v

\* C17 without the cases that diverge: a payload string ending with the date
\* mark that is serialized, a payload changed to one with the same JSON text,
\* and a z to which a further ":" part is added
C17_SignRoundTripElsewhere ==
  Did("receive") =>
    /\ (Did("sign") /\ tampered = "none" /\ SameSalt
          /\ ~(Did("transmit") /\ MarkedString(signCase.message.p)))
         => verdict = "ok"
    /\ (~Did("sign") \/ ~SameSalt \/ tampered \in {"t", "c", "s", "no z"})
         => verdict = "failed"
    /\ (tampered = "z" /\ inbound.z.more = <<>>) => verdict = "failed"
    /\ (tampered = "p" /\ JsonStringify(inbound.p) # JsonStringify(signCase.message.p))
         => verdict = "failed"

\* a signed message whose z got a further part has been verified and handled
C17_ForgedAccepted ==
  /\ Did("receive") /\ tampered = "z"
  /\ inbound.z.more # <<>>
  /\ verdict = "ok"

\* the number of chunks a message of len bytes needs
ChunksNeeded(len) == CeilDiv(len, maxPayload - 37)

\* the bodies of the chunk datagrams, ordered by the index in their headers
BodiesByIndex(datagrams) ==
  [j \in 1..Len(datagrams) |->
     BodyOf(CHOOSE d \in Range(datagrams) : IndexOf(d) = j - 1)]

\* the datagrams are the framing of the message in n chunks
FramedInChunks(message, datagrams, n) ==
  /\ Len(datagrams) = n
  /\ \A i \in 1..n : IsChunk(datagrams[i]) /\ Len(datagrams[i]) <= maxPayload
  /\ \A j \in 0..(n - 1) : Cardinality({i \in 1..n : IndexOf(datagrams[i]) = j}) = 1
  /\ \A i \in 1..n : /\ NonceOf(datagrams[i]) = NonceOf(datagrams[1])
                       /\ TotalOf(datagrams[i]) = TotalOf(datagrams[1])
  /\ Concat(BodiesByIndex(datagrams)) = message

\* C19: the pub/sub transport publishes a message as one unframed datagram
\* if and only if its marshalled length is at most maxPayload; otherwise it
\* publishes exactly ceil(len / (maxPayload - 37)) chunk datagrams on one
\* subject, each at most maxPayload long, with the indices 0..numChunks-1
\* each used once, the same nonce and total in every header, and bodies
\* whose concatenation in index order is the marshalled message.
C19_Framing ==
  \A k \in 1..Len(sends) :
    LET message == sends[k].message
        datagrams == sends[k].datagrams
    IN /\ \A i \in 1..Len(datagrams) : sends[k].subjects[i] = sends[k].subjects[1]
       /\ IF Len(message) <= maxPayload
          THEN datagrams = <<message>> /\ ~IsChunk(datagrams[1])
          ELSE FramedInChunks(message, datagrams, ChunksNeeded(Len(message)))

\* C19 for the messages that need at most 256 chunks
C19_FramingUpTo256 ==
  \A k \in 1..Len(sends) :
    LET message == sends[k].message
        datagrams == sends[k].datagrams
    IN ChunksNeeded(Len(message)) <= 256 =>
         /\ \A i \in 1..Len(datagrams) : sends[k].subjects[i] = sends[k].subjects[1]
         /\ IF Len(message) <= maxPayload
            THEN datagrams = <<message>> /\ ~IsChunk(datagrams[1])
            ELSE FramedInChunks(message, datagrams, ChunksNeeded(Len(message)))

\* a message one byte longer than maxPayload has been published in chunks
C19_ChunkedAtBoundary ==
  \E k \in 1..Len(sends) :
    /\ Len(sends[k].message) = maxPayload + 1
    /\ Len(sends[k].datagrams) = ChunksNeeded(maxPayload + 1)
    /\ IsChunk(sends[k].datagrams[1])

\* C20: when a marshalled message would need more than 255 chunks, send
\* refuses it: send fails and no chunk is published; no chunk is ever
\* published whose index or total byte is the wrapped value of a larger
\* number.
C20_RefusesOver255 ==
  \A k \in 1..Len(sends) :
    LET message == sends[k].message
        datagrams == sends[k].datagrams
    IN /\ (Len(message) > maxPayload /\ ChunksNeeded(Len(message)) > 255) =>
            sends[k].failed /\ datagrams = <<>>
       /\ Len(message) > maxPayload =>
            \A i \in 1..Len(datagrams) :
              IndexOf(datagrams[i]) = i - 1 /\ TotalOf(datagrams[i]) = Len(datagrams)

\* C20 for the messages that need at most 255 chunks: the index and total
\* bytes are the numbers themselves
C20_NoWrapUpTo255 ==
  \A k \in 1..Len(sends) :
    LET message == sends[k].message
        datagrams == sends[k].datagrams
    IN (Len(message) > maxPayload /\ ChunksNeeded(Len(message)) <= 255) =>
         /\ ~sends[k].failed
         /\ \A i \in 1..Len(datagrams) :
              IndexOf(datagrams[i]) = i - 1 /\ TotalOf(datagrams[i]) = Len(datagrams)

\* a message of 257 chunks has been published, the last chunk with index 0
\* and total 1 in its header
C20_WrappedHeader ==
  \E k \in 1..Len(sends) :
    /\ Len(sends[k].datagrams) = 257
    /\ IndexOf(sends[k].datagrams[257]) = 0
    /\ TotalOf(sends[k].datagrams[257]) = 1

\* the number of times x occurs in seq
Count(seq, x) == Cardinality({i \in 1..Len(seq) : seq[i] = x})

\* every datagram published by the k-th send has been delivered
Delivered(k) ==
  \A i \in 1..Len(sends[k].datagrams) :
    \A j \in 1..Len(network) : network[j] # sends[k].datagrams[i]

\* C18: for any message split into chunks and any delivery order of those
\* chunks, with chunks of other chunked messages and whole messages between
\* them, the pub/sub transport invokes the receive handler exactly once with
\* a message equal to the original, and never before every one of its chunks
\* has arrived: the handler has been called with a message as many times as
\* there are sends of it whose datagrams have all been delivered, and with
\* nothing else.
C18_Reassembly ==
  /\ \A i \in 1..Len(received) : \E k \in 1..Len(sends) : sends[k].message = received[i]
  /\ \A k \in 1..Len(sends) :
       Count(received, sends[k].message) =
         Cardinality({j \in 1..Len(sends) :
                        sends[j].message = sends[k].message /\ Delivered(j)})

\* C18 while every message sent needs at most 255 chunks
C18_ReassemblyUpTo255 ==
  (\A k \in 1..Len(sends) : Len(sends[k].datagrams) <= 255) => C18_Reassembly

\* a message of three chunks has been reassembled although the last chunk
\* delivered was not its last chunk, with another nonce's chunks buffered
C18_Interleaved ==
  /\ Len(received) > 0
  /\ \E k \in 1..Len(sends) :
       /\ Len(sends[k].datagrams) = 3
       /\ sends[k].message = received[Len(received)]
       /\ Delivered(k)
  /\ DOMAIN chunkedMessages # {}

\* the subscription's loop has ended on a chunk of a message of 256 chunks
C18_LoopEnded ==
  /\ ~subscribed
  /\ \E k \in 1..Len(sends) : Len(sends[k].datagrams) = 256
  /\ received = <<>>

\* the transport has been created and close has not been called on it
InUse(t) == transports[t].pc = "created" /\ transports[t].closeCalls = 0

\* every transport created has been closed, and no call is in progress
AllClosed ==
  /\ \E t \in PoolTransports : transports[t].pc = "created"
  /\ \A t \in PoolTransports :
       /\ ~InProgress(t)
       /\ transports[t].pc = "created" => transports[t].closeCalls > 0

\* the broker connection of every transport in use is open, and once the
\* last transport is closed every broker connection is closed and the pool
\* is empty
PoolRefCounted ==
  /\ \A t \in PoolTransports : InUse(t) => brokers[transports[t].nc] = "open"
  /\ AllClosed => clients = <<>> /\ \A nc \in 1..Len(brokers) : brokers[nc] = "closed"

\* C21: for any sequence of create and close calls on one configuration in
\* which each transport is closed at most once, the shared broker connection
\* stays open as long as a created transport has not been closed, and it is
\* closed and removed from the pool exactly when the last one is closed.
C21_SharedUntilLastClose ==
  (\A t \in PoolTransports : transports[t].closeCalls <= 1) => PoolRefCounted

\* C21 for the calls each of which completes before the next begins
C21_WhenCallsDoNotOverlap ==
  (~overlapped /\ \A t \in PoolTransports : transports[t].closeCalls <= 1) => PoolRefCounted

\* two creates that overlapped have made two broker connections, and after
\* both transports were closed once one of the connections is still open
C21_LeakedConnection ==
  /\ AllClosed
  /\ \A t \in PoolTransports : transports[t].closeCalls <= 1
  /\ \E nc \in 1..Len(brokers) : brokers[nc] = "open"

\* C22 (pub/sub part): close is idempotent: closing one transport twice
\* does not decrement the shared reference count a second time and never
\* closes a broker connection that a sibling transport still uses.
C22_CloseIdempotent ==
  ~overlapped =>
    /\ \A t \in PoolTransports : InUse(t) => brokers[transports[t].nc] = "open"
    /\ clients # <<>> =>
         clients[1].refCount = Cardinality({t \in PoolTransports : InUse(t)})

\* a transport closed twice has closed the connection of a sibling in use
C22_SiblingCut ==
  /\ ~overlapped
  /\ \E t \in PoolTransports : transports[t].closeCalls = 2
  /\ \E t \in PoolTransports : InUse(t) /\ brokers[transports[t].nc] = "closed"

\* the send call for m has been made
Issued(m) == sendCalls[m].pc # "idle"

\* the send call for m waits for an event or is due to resume
Pending(m) == sendCalls[m].pc \in {"awaitConnect", "awaitOpen", "awaitClose", "opened", "joined"}

\* the socket whose opening the send call for m waited for
AttemptOf(m) == IF sendCalls[m].own # 0 THEN sendCalls[m].own ELSE sendCalls[m].on

\* no send was called while the socket was closing
NoSendWhileClosing == \A m \in SendIds : sendCalls[m].at # "closing"

\* the sockets that have not emitted close
Alive == {s \in 1..Len(sockets) : ReadyState(s) # "closed"}

ConnectFailed(s) == sockets[s].error = "emitted"

\* C24: if a connect attempt fails, every send that was pending on that
\* attempt (the one that initiated it and every one that joined while the
\* socket was connecting) fails with an error whose message includes the URL
\* and the cause; none of them stays pending forever: once the socket of the
\* failed attempt has emitted close, which is its last event, each of those
\* sends has failed with the socket error.
C24_PendingSendsFail ==
  \A m \in SendIds :
    (/\ sendCalls[m].at \in {"disconnected", "connecting"}
     /\ ConnectFailed(AttemptOf(m))
     /\ ReadyState(AttemptOf(m)) = "closed") =>
      sendCalls[m].pc = "failed" /\ sendCalls[m].error = SocketError

\* C24 for the send that initiated the connect
C24_InitiatorFails ==
  \A m \in SendIds :
    (sendCalls[m].own # 0 /\ ConnectFailed(sendCalls[m].own)) =>
      sendCalls[m].pc = "failed" /\ sendCalls[m].error = SocketError

\* a send that joined a connect is still waiting for the open event of a
\* socket that has failed and closed
C24_JoinerHangs ==
  \E m \in SendIds :
    /\ sendCalls[m].pc = "awaitOpen"
    /\ ConnectFailed(sendCalls[m].on)
    /\ ReadyState(sendCalls[m].on) = "closed"

\* isOpen()
IsOpen == socket # 0 /\ ReadyState(socket) = "open"

\* socket s emits close in this step
Closes(s) == ReadyState(s) # "closed" /\ sockets'[s].readyState = "closed"

\* a send called when this.socket is undefined opens a socket, and once that
\* socket is open and the send has resumed, its message is written to it
ReconnectDelivers ==
  \A m \in SendIds :
    sendCalls[m].at = "disconnected" =>
      /\ sendCalls[m].own # 0
      /\ (~Pending(m) /\ ReadyState(sendCalls[m].own) = "open") =>
           Count(sockets[sendCalls[m].own].written, m) = 1

\* the onClose hook has fired once for each socket that has emitted close,
\* and this.socket is not a socket that has emitted close
ClosedSocketsCleared ==
  /\ \A s \in 1..Len(sockets) :
       Count(onCloseFired, s) = IF ReadyState(s) = "closed" THEN 1 ELSE 0
  /\ socket # 0 => ReadyState(socket) # "closed"

\* C25: after the client socket has closed (by close() or by the peer), the
\* transport's socket reference is cleared, the onClose hook has fired once
\* for that close, isOpen() is false, and the next send opens a new socket
\* and delivers its message over it.
C25_ReconnectAfterClose ==
  /\ ClosedSocketsCleared
  /\ (\E s \in 1..Len(sockets) : ReadyState(s) = "closed") => ReconnectDelivers

\* C25 while no send has been called on a closing socket
C25_WhenNoSendWhileClosing ==
  NoSendWhileClosing => C25_ReconnectAfterClose

\* when a socket emits close, the reference is cleared and isOpen() is false
C25_ClearedAtClose ==
  [][(\E s \in 1..Len(sockets) : Closes(s)) => socket' = 0 /\ ~IsOpen']_vars

\* a send called after a close has opened a second socket and written to it
C25_Reconnected ==
  \E m \in SendIds :
    /\ sendCalls[m].at = "disconnected"
    /\ sendCalls[m].own = 2
    /\ ReadyState(1) = "closed"
    /\ ReadyState(2) = "open"
    /\ Count(sockets[2].written, m) = 1

\* C26: a send called while the socket is closing does not write the
\* message and does not open a new socket; it waits for the close event and
\* then fails with a socket-closed error carrying the close reason.
C26_SendWhileClosingFails ==
  \A m \in SendIds :
    sendCalls[m].at = "closing" =>
      /\ sendCalls[m].own = 0
      /\ sendCalls[m].wrote = 0
      /\ \/ sendCalls[m].pc = "awaitClose"
         \/ /\ sendCalls[m].pc = "failed"
            /\ sendCalls[m].error.kind = "Socket closed by server"

\* a send called while the socket was closing has opened a second socket and
\* written its message to it
C26_OpenedAnotherSocket ==
  \E m \in SendIds :
    /\ sendCalls[m].at = "closing"
    /\ sendCalls[m].own = 2
    /\ sendCalls[m].wrote = 2

\* C27: if the client socket closes while a request waits for a response,
\* the pending read fails with a socket-closed error when the close happens,
\* rather than staying pending until responseTimeout expires: no request is
\* reading a response from a socket that has emitted close.
C27_CloseAbortsPendingRead ==
  \A m \in Requests :
    (sendCalls[m].pc = "reading" /\ sendCalls[m].wrote # 0) =>
      ReadyState(sendCalls[m].wrote) # "closed"

\* a read that is pending when its socket emits close stays pending
C27_ReadOutlivesSocket ==
  [][\A m \in Requests : \A s \in 1..Len(sockets) :
       (sendCalls[m].pc = "reading" /\ sendCalls[m].wrote = s /\ Closes(s)) =>
         sendCalls'[m].pc = "reading"]_vars

\* C28 (client part): when the server rejects the path of the URL, a request
\* issued by the client on that URL fails with "Socket closed by server
\* (unsupported path: <url>)" and the client is not open afterwards: once
\* the socket the request was issued on has been closed by the server and
\* has emitted close, the request has failed with that error and
\* this.socket is not that socket.
C28_RejectedRequestFails ==
  url \notin AllowedPaths =>
    \A m \in Requests : \A s \in 1..Len(sockets) :
      (/\ Issued(m) /\ (AttemptOf(m) = s \/ sendCalls[m].wrote = s)
       /\ sockets[s].peer /\ ReadyState(s) = "closed") =>
        /\ sendCalls[m].pc = "failed"
        /\ sendCalls[m].error = SocketClosedError(UnsupportedPath(url))
        /\ socket # s

\* C28 (client part) for a request that opens the only socket and whose
\* connect resumes when the close frame of the server has arrived: it is not
\* written and does not end in another way
C28_FailsWhenCloseSeen ==
  (url \notin AllowedPaths /\ Len(sockets) = 1 /\ closeCalls = <<>>) =>
    \A m \in Requests :
      (sendCalls[m].own # 0 /\ sendCalls[m].wrote = 0 /\ sockets[sendCalls[m].own].peer
       /\ sendCalls[m].pc \notin {"opened", "awaitClose"}) =>
        sendCalls[m].pc = "failed" /\ sendCalls[m].error.kind = "Socket closed by server"

\* the request was written to the socket before the close frame of the
\* server arrived, and is still reading after the socket has emitted close
C28_RequestLeftReading ==
  /\ url \notin AllowedPaths
  /\ \E m \in Requests :
       /\ sendCalls[m].pc = "reading"
       /\ sendCalls[m].own = 1 /\ sendCalls[m].wrote = 1
       /\ sockets[1].peer /\ ReadyState(1) = "closed"

\* the connections whose sockets have not emitted close
OpenConnections ==
  {s \in 1..Len(serverSockets) :
     serverSockets[s].accepted /\ serverSockets[s].readyState # "closed"}

\* the registry holds exactly the connections whose sockets have not emitted
\* close; onConnect was called once per connection and onDisconnect once per
\* connection whose socket has emitted close
RegistryExact ==
  /\ connectionsById = OpenConnections
  /\ \A s \in 1..Len(serverSockets) :
       /\ Count(hookCalls, HookCall("onConnect", s)) =
            IF serverSockets[s].accepted THEN 1 ELSE 0
       /\ Count(hookCalls, HookCall("onDisconnect", s)) =
            IF serverSockets[s].accepted /\ serverSockets[s].readyState = "closed"
            THEN 1 ELSE 0

\* C29: at every moment the registry contains exactly the accepted
\* connections whose sockets have not yet emitted close, each under its own
\* id; onConnect is invoked exactly once per accepted connection and
\* onDisconnect exactly once per closed connection; after the close() of the
\* server resolves the registry is empty.
C29_RegistryTracksConnections ==
  /\ RegistryExact
  /\ serverClose.pc = "resolved" => connectionsById = {}

\* C29 without the emptiness after close()
C29_RegistryExact == RegistryExact

\* onDisconnect is called for a connection after it has left the registry
C29_DisconnectAfterRemoval ==
  [][\A s \in 1..Len(serverSockets) :
       Count(hookCalls', HookCall("onDisconnect", s)) >
         Count(hookCalls, HookCall("onDisconnect", s)) => s \notin connectionsById']_vars

\* close() has resolved while a connection accepted during its loop is
\* registered
C29_RegisteredAfterClose ==
  /\ serverClose.pc = "resolved"
  /\ \E s \in connectionsById :
       /\ serverSockets[s].readyState = "open"
       /\ \A k \in 1..Len(serverClose.connections) : serverClose.connections[k] # s

\* C28 (server part): a socket whose path is not in the allow-list is closed
\* with status 1008 and reason "unsupported path: <url>"; no connection is
\* registered for it and no hook is invoked for it.
C28_RejectedAtUpgrade ==
  \A s \in 1..Len(serverSockets) :
    serverSockets[s].path \notin AllowedPaths =>
      /\ serverSockets[s].readyState # "open"
      /\ serverSockets[s].code = 1008
      /\ serverSockets[s].reason = UnsupportedPath(serverSockets[s].path)
      /\ s \notin connectionsById
      /\ \A k \in 1..Len(hookCalls) : hookCalls[k].conn # s

\* C22 (server socket part): a close() on a server socket transport whose
\* socket has emitted close still resolves.
C22_ServerCloseResolves ==
  \A k \in 1..Len(transportCloses) :
    serverSockets[transportCloses[k].on].readyState = "closed" => transportCloses[k].resolved

\* a second close() on a transport whose socket had emitted close is pending
C22_SecondCloseHangs ==
  /\ Len(transportCloses) = 2
  /\ transportCloses[1].on = transportCloses[2].on
  /\ transportCloses[1].resolved /\ ~transportCloses[2].resolved
  /\ serverSockets[transportCloses[1].on].readyState = "closed"

\* the number of calls of handler h with request p
CallsOf(h, p) ==
  Cardinality({k \in 1..Len(handlerCalls) :
                 handlerCalls[k].handler = h /\ handlerCalls[k].push = p})

\* a request whose handlers all returned has been passed once to every
\* handler registered when it arrived, and to no handler of another instance
PassedToEveryHandler ==
  \A p \in 1..Len(pushes) :
    /\ pushes[p].state = "done" =>
         \A k \in 1..Len(pushes[p].registered) : CallsOf(pushes[p].registered[k], p) = 1
    /\ \A h \in ReceiveHandlerNames :
         /\ CallsOf(h, p) <= 1
         /\ CallsOf(h, p) = 1 => Has(receiveHandlers[pushes[p].to], h)

\* at most one handler runs for a request
OneAtATime ==
  \A p \in 1..Len(pushes) :
    Cardinality({k \in 1..Len(handlerCalls) :
                   handlerCalls[k].push = p /\ ~handlerCalls[k].ended}) <= 1

\* handler h of instance u is called with the requests of u in the order of
\* their arrival
InArrivalOrder(u, h) ==
  \A j, k \in 1..Len(handlerCalls) :
    (/\ j < k
     /\ handlerCalls[j].handler = h /\ handlerCalls[k].handler = h
     /\ pushes[handlerCalls[j].push].to = u /\ pushes[handlerCalls[k].push].to = u) =>
      handlerCalls[j].push < handlerCalls[k].push

\* a response is sent only for a request one of whose handlers threw
NoResponseUnlessThrown ==
  \A k \in 1..Len(pushResponses) : pushes[pushResponses[k].c].state = "failed"

\* C30: on a WebSocketMessageClient (one shared instance per URL) every
\* inbound request is passed to every registered handler exactly once, the
\* handlers for one request run one at a time, each handler sees successive
\* pushes in arrival order, and no response is sent whatever the handlers
\* return.
C30_FanOutInOrder ==
  /\ PassedToEveryHandler
  /\ OneAtATime
  /\ \A u \in ClientUrls, h \in ReceiveHandlerNames : InArrivalOrder(u, h)
  /\ NoResponseUnlessThrown

\* C30 with the arrival order for the handler registered first only
C30_FanOutFirstInOrder ==
  /\ PassedToEveryHandler
  /\ OneAtATime
  /\ \A u \in ClientUrls :
       receiveHandlers[u] # <<>> => InArrivalOrder(u, receiveHandlers[u][1])
  /\ NoResponseUnlessThrown

\* two requests have been passed to both handlers of an instance with no
\* response, and the second handler was called with the later request first
C30_SecondHandlerOutOfOrder ==
  /\ pushResponses = <<>>
  /\ \E p, q \in 1..Len(pushes) :
       /\ p < q
       /\ pushes[p].to = pushes[q].to
       /\ pushes[p].state = "done" /\ pushes[q].state = "done"
       /\ Len(pushes[p].registered) = 2
       /\ \E j, k \in 1..Len(handlerCalls) :
            /\ j < k
            /\ handlerCalls[j].handler = pushes[p].registered[2]
            /\ handlerCalls[k].handler = pushes[p].registered[2]
            /\ handlerCalls[j].push = q /\ handlerCalls[k].push = p

\* a string that DATE_RE matches is in the value
RECURSIVE HasMarkedString(_)
HasMarkedString(v) ==
  CASE v.type = "string" -> DATE_RE(v.val)
    [] v.type = "array" -> \E i \in 1..Len(v.items) : HasMarkedString(v.items[i])
    [] v.type = "mapping" -> \E i \in 1..Len(v.vals) : HasMarkedString(v.vals[i])
    [] OTHER -> FALSE

\* C31: deannotate(annotate(x)) equals x for every value composed of
\* strings (including ISO-8601-looking strings and strings that end in
\* "@@@D"), numbers, booleans, null, timestamps, arrays and mappings.
C31_RoundTrip == codecStage = "deannotated" => codecOutput = codecInput

\* C31 for the values none of whose strings has a non-empty part before a
\* final "@@@D"
C31_RoundTripUnmarked ==
  (codecStage = "deannotated" /\ ~HasMarkedString(codecInput)) => codecOutput = codecInput

\* a mapping holding a date and an ISO-8601-looking string has come back as
\* it was
C31_DateAndDateStringKept ==
  /\ codecStage = "deannotated"
  /\ codecInput = JsMap(<<"foo", "nums">>,
                        <<JsDate(<<"2025-03-22T11:53:26.424Z">>),
                          JsArr(<<JsStr(<<"2025-03-22T11:53:26.424Z">>)>>)>>)
  /\ codecWire # codecInput
  /\ codecOutput = codecInput

\* a string ending in "@@@D" has come back as a date
C31_StringBecameDate ==
  /\ codecStage = "deannotated"
  /\ codecInput = JsStr(<<"t0", DateMark>>)
  /\ codecOutput = JsDate(<<"t0">>)

\* the subscription's loop takes a chunk with an invalid header
TakesInvalidChunk ==
  /\ network # <<>>
  /\ network' = Tail(network)
  /\ subscribed
  /\ InvalidHeader(Head(network))

\* C32: a chunk datagram whose header is invalid (index >= total, total = 0,
\* or a header truncated before the index/total bytes) is dropped: it
\* causes no message delivery, and the reassembly buffer map is the same
\* after it as before it.
C32_InvalidChunkDropped ==
  [][TakesInvalidChunk =>
       /\ received' = received
       /\ chunkedMessages' = chunkedMessages
       /\ subscribed']_vars

\* C32 for the headers truncated before the index and total bytes
C32_TruncatedChunkDropped ==
  [][(TakesInvalidChunk /\ Len(Head(network)) < Len(CHUNK_HEADER_PREFIX) + 18) =>
       /\ received' = received
       /\ chunkedMessages' = chunkedMessages
       /\ subscribed']_vars

\* a truncated chunk was taken while the chunks of a message were buffered,
\* and the message was then delivered whole
C32_TruncatedAmongChunks ==
  /\ \E k \in 1..Len(forged) : Len(forged[k]) < Len(CHUNK_HEADER_PREFIX) + 18
  /\ \A k \in 1..Len(forged) : \A i \in 1..Len(network) : network[i] # forged[k]
  /\ received = <<Marshalled(20, 13), Marshalled(150, 7)>>
  /\ chunkedMessages = <<>>

\* a chunk with total 0 has been delivered as a message
C32_ZeroTotalDelivered ==
  /\ Len(sends) = 1
  /\ received = <<Marshalled(20, 13), Marshalled(20, 13)>>

\* a chunk with index >= total has left an array in the buffer map that no
\* further chunk completes
C32_BufferLeftBehind ==
  /\ network = <<>> /\ outbox = <<>>
  /\ subscribed
  /\ uuidBuf(9) \in DOMAIN chunkedMessages

\* the places in published of the messages transport tr sent for c
SentBy(tr, c) ==
  {k \in 1..Len(published) : published[k].from = tr /\ published[k].c = c}

\* the greatest number of a non-empty set of numbers
Greatest(set) == CHOOSE k \in set : \A j \in set : j <= k

\* an end message went to the subject of the most recent message other than
\* end that the transport sent for the conversation
EndOnCachedSubject ==
  \A k \in 1..Len(published) :
    published[k].t = "end" =>
      LET prior == {j \in SentBy(published[k].from, published[k].c) :
                      j < k /\ published[j].t # "end"}
      IN /\ prior # {}
         /\ published[k].subject = published[Greatest(prior)].subject

\* the cache of a transport has an entry for c exactly when the last message
\* it sent for c is not an end message, and the entry is that message's
\* subject
CacheFollowsSends ==
  \A tr \in PubSubTransports, c \in 1..MaxConvs :
    LET last == IF SentBy(tr, c) = {} THEN 0 ELSE Greatest(SentBy(tr, c))
    IN IF last # 0 /\ published[last].t # "end"
       THEN /\ c \in DOMAIN subjectById[tr]
            /\ subjectById[tr][c] = published[last].subject
       ELSE c \notin DOMAIN subjectById[tr]

\* a send call fails exactly when no subject is found for its message, and
\* then publishes nothing and leaves the cache as it was
UnresolvedSendFails ==
  Len(pubCalls') = Len(pubCalls) + 1 =>
    LET made == pubCalls'[Len(pubCalls')]
    IN /\ made.failed <=> SubjectFor(made.from, made.t, made.c) = NoSubject
       /\ made.failed => published' = published /\ subjectById' = subjectById
       /\ ~made.failed => Len(published') = Len(published) + 1

\* C33: on the pub/sub transports an end message for conversation c is
\* published on the subject on which the most recent non-end message for c
\* was sent through this transport, and the c -> subject cache entry is
\* removed by that send; a send for which no subject can be resolved fails
\* with an error, publishes nothing and leaves the cache unchanged.
C33_EndOnCachedSubject ==
  /\ [](EndOnCachedSubject /\ CacheFollowsSends)
  /\ [][UnresolvedSendFails]_vars

\* an end message has gone to the subject its multi messages were resolved
\* to, its cache entry is gone, and an end message for which the cache had
\* no entry has failed
C33_EndSentAndEndFailed ==
  /\ publishSubject = "byType"
  /\ \E k \in 1..Len(published) :
       /\ published[k].t = "end" /\ published[k].subject = "s2.multi"
       /\ published[k].c \notin DOMAIN subjectById["responder"]
  /\ \E k \in 1..Len(pubCalls) : pubCalls[k].t = "end" /\ pubCalls[k].failed

\* the responder has sent everything and the requester's conversation has
\* ended
ConversationOver(c) ==
  /\ convs[c].stage = "responding"
  /\ convs[c].sent = Len(ResponsesFor(convs[c].kind))
  /\ convs[c].endedBy # "none"

\* C37: the c -> subject cache holds an entry for c only while a
\* conversation with that c is in progress on the transport: after the
\* conversation's terminal message of any type has been sent or the
\* conversation is otherwise over, the cache has no entry for c.
C37_CacheOnlyWhileInProgress ==
  \A c \in 1..MaxConvs :
    ConversationOver(c) => \A tr \in PubSubTransports : c \notin DOMAIN subjectById[tr]

\* C37 for the transport of a responder that has sent an end message
C37_ClearedByEnd ==
  \A c \in 1..MaxConvs :
    (ConversationOver(c) /\ convs[c].kind \in {"stream1", "stream2"}) =>
      c \notin DOMAIN subjectById["responder"]

\* every conversation is over and both caches hold an entry for each
C37_CacheGrows ==
  /\ \A c \in 1..MaxConvs : ConversationOver(c) /\ convs[c].endedBy = "message"
  /\ \A tr \in PubSubTransports : DOMAIN subjectById[tr] = 1..MaxConvs

\* the responder has published the end message of conversation c on its
\* publish subject
EndPublished(c) ==
  \E k \in 1..Len(published) :
    /\ published[k].from = "responder" /\ published[k].c = c
    /\ published[k].t = "end"
    /\ published[k].subject \in {Resolved("responder", t) : t \in {"multi", "end"}}

\* C40: over a pub/sub transport a responder whose handler returns an empty
\* stream still publishes the end message for that conversation (on the
\* transport's publish subject), so the requester's conversation terminates
\* by that end message and not by a timeout.
C40_EmptyStreamEnds ==
  \A c \in 1..MaxConvs :
    (convs[c].kind = "stream0" /\ convs[c].sent = 1) =>
      EndPublished(c) /\ convs[c].endedBy = "message"

\* C40 for the streams that are not empty
C40_NonEmptyStreamEnds ==
  \A c \in 1..MaxConvs :
    (convs[c].kind \in {"stream1", "stream2"} /\ ConversationOver(c)) =>
      EndPublished(c) /\ convs[c].endedBy = "message"

\* the end message of an empty stream was not published: the send failed,
\* and the requester's conversation ended by the timeout
C40_EmptyStreamTimedOut ==
  \E c \in 1..MaxConvs :
    /\ convs[c].kind = "stream0"
    /\ convs[c].endedBy = "timeout"
    /\ ~EndPublished(c)
    /\ \E k \in 1..Len(pubCalls) :
         pubCalls[k].c = c /\ pubCalls[k].t = "end" /\ pubCalls[k].failed

\* the number of times the transform was applied in the step
Applied(step, name) ==
  Cardinality({i \in 1..Len(step.applied) : step.applied[i] = name})

\* every message sent was marshalled once, before it was signed, and every
\* message received was unmarshalled once, after it was verified
TransformsSymmetric(types) ==
  \A k \in 1..Len(steps) :
    steps[k].t \in types =>
      \/ steps[k].applied = <<"marshalPayload", "sign">>
      \/ steps[k].applied = <<"verify", "unmarshalPayload">>

\* C34: payload transforms are applied symmetrically: for every request,
\* response and multi message marshalPayload is applied exactly once before
\* signing on the sending connection and unmarshalPayload exactly once after
\* verification on the receiving connection; hence, the transforms being
\* inverses, the receive handler is called with the payload passed to
\* request() and the requester gets the payload the handler returned.
C34_TransformsSymmetric ==
  /\ TransformsSymmetric({"request", "response", "multi"})
  /\ Len(steps) >= 2 => handlerArg = requested
  /\ Len(steps) = 4 => clientGot = handlerResult

\* C34 for the response and multi messages
C34_ResponsesSymmetric ==
  /\ TransformsSymmetric({"response", "multi"})
  /\ Len(steps) = 4 => clientGot = handlerResult

\* a multi message was marshalled and unmarshalled by the shifting pair and
\* the requester got what the handler returned
C34_ResponseCameBack ==
  /\ transform = "shift"
  /\ Len(steps) = 4
  /\ wire[2].t = "multi"
  /\ wire[2].p = handlerResult + 10
  /\ clientGot = handlerResult

\* the request was not marshalled, and the handler was called with the
\* payload unmarshalled
C34_RequestOnlyUnmarshalled ==
  /\ transform = "shift"
  /\ Len(steps) >= 2
  /\ Applied(steps[1], "marshalPayload") = 0
  /\ Applied(steps[2], "unmarshalPayload") = 1
  /\ handlerArg = requested - 10


(***************************************************************************)
(* Responses that arrive while transport.send is still running.            *)
(***************************************************************************)

\* the call of p has its queue, and every message the responder sent for the
\* conversation is either still with the transport or waiting in the queue
NothingLost(p) ==
  /\ call[p].c \in DOMAIN responseQueues
  /\ responseQueues[call[p].c].items \o InFlight(call[p].c) = SentFor(call[p].c)

\* C35: for a request that expects a response the queue of c is registered
\* before the message is handed to the transport: while transport.send is
\* running and until the first read, every response the responder has sent
\* is in the queue or still in flight, and the first message the call reads
\* is the first one the responder sent.
C35_QueueRegisteredBeforeSend ==
  \A p \in Callers :
    Expecting(p) =>
      /\ call[p].pc \in {"sending", "awaitFirst"} => NothingLost(p)
      /\ call[p].firstMsg # NoMsg => call[p].firstMsg = SentFor(call[p].c)[1]

\* the whole response was delivered while transport.send was still running
C35_DeliveredDuringSend ==
  \E p \in Callers :
    /\ Expecting(p)
    /\ call[p].pc = "sending"
    /\ call[p].c \in DOMAIN responseQueues
    /\ responseQueues[call[p].c].items # <<>>
    /\ responseQueues[call[p].c].flushed
    /\ InFlight(call[p].c) = <<>>


(***************************************************************************)
(* A request whose transport.send fails.                                   *)
(***************************************************************************)

\* the call of p ended because transport.send failed
SendFailed(p) == call[p].pc = "failed" /\ call[p].thrown = SendError

\* C36: when transport.send fails for a request with expectResponse = true
\* the call fails with that error and responseQueues has no entry for the
\* request's c.
C36_SendFailureLeavesNoQueue ==
  \A p \in Callers :
    Expecting(p) /\ SendFailed(p) => call[p].c \notin DOMAIN responseQueues

\* C36, the part about the error: a call that stops while transport.send is
\* running fails with the transport's error, and no response is given to it
C36_SendFailurePropagates ==
  [][\A p \in Callers :
       call[p].pc = "sending" /\ call'[p].pc = "failed" =>
         /\ call'[p].thrown = SendError
         /\ call'[p].returned = JsUndefined
         /\ call'[p].yielded = <<>>]_vars

\* the call failed with the transport's error and its queue is still there
C36_QueueLeftBehind ==
  \E p \in Callers :
    /\ Expecting(p)
    /\ SendFailed(p)
    /\ call[p].c \in DOMAIN responseQueues
    /\ responseQueues[call[p].c] = [NewQueue EXCEPT !.maxWaitTime = DEFAULT_RESPONSE_TIMEOUT]


(***************************************************************************)
(* The pool under concurrent creates and failing constructors.             *)
(***************************************************************************)

\* the broker connections that are open
OpenBrokers == {nc \in 1..Len(brokers) : brokers[nc] = "open"}

\* no create or close is in progress and no created transport is unclosed
NothingInUse ==
  /\ \E t \in PoolTransports : transports[t].pc # "absent"
  /\ \A t \in PoolTransports : ~InProgress(t) /\ ~InUse(t)

\* one connection at most, the count is the number of transports in use, and
\* nothing stays open when nothing is in use
PoolExact ==
  /\ Cardinality(OpenBrokers) <= 1
  /\ clients # <<>> /\ ~SomeCallInProgress =>
       clients[1].refCount = Cardinality({t \in PoolTransports : InUse(t)})
  /\ NothingInUse => OpenBrokers = {}

\* C38: for any interleaving of concurrent create calls on one configuration
\* (a create whose constructor fails included) and of later close calls, each
\* transport closed once, at most one broker connection is open at a time,
\* the pool's count equals the number of created and not yet closed
\* transports, and once every created transport is closed every broker
\* connection that was opened is closed.
C38_PoolExact ==
  (\A t \in PoolTransports : transports[t].closeCalls <= 1) => PoolExact

\* C38 for calls that do not overlap on a connection that reports max_payload
C38_PoolExactSequential ==
  (/\ ~overlapped
   /\ \A t \in PoolTransports : transports[t].closeCalls <= 1
   /\ \A t \in PoolTransports : transports[t].pc # "failed") => PoolExact

\* three sequential creates and closes have held the pool exact
C38_SequentialUse ==
  /\ ~overlapped
  /\ \A t \in PoolTransports : transports[t].pc = "created" /\ transports[t].closeCalls = 1
  /\ Len(brokers) = 1
  /\ NothingInUse

\* two overlapping creates have two broker connections open at once
C38_TwoConnectionsOpen ==
  /\ Cardinality(OpenBrokers) = 2
  /\ \A t \in PoolTransports : transports[t].pc # "failed"

\* a single create whose constructor threw has left the connection open and
\* counted, with no transport to close it
C38_CountLeakedByFailedConstructor ==
  /\ ~overlapped
  /\ \A t \in PoolTransports : transports[t].pc \in {"absent", "failed"}
  /\ clients # <<>> /\ clients[1].refCount = 1
  /\ OpenBrokers = {1}


(***************************************************************************)
(* The order of the server's hooks on one connection.                      *)
(***************************************************************************)

\* every onReceive and onDisconnect entry comes after the entry `first` of
\* the same connection
HooksAfter(first) ==
  \A k \in 1..Len(hookCalls) :
    hookCalls[k].hook \in {"onReceive", "onDisconnect"} =>
      \E j \in 1..(k - 1) : hookCalls[j] = HookCall(first, hookCalls[k].conn)

\* C39: no request received on an accepted connection is dispatched to the
\* server's onReceive handler, and onDisconnect is not invoked for the
\* connection, before the onConnect handler for it has completed.
C39_HooksAfterConnectCompleted == HooksAfter("onConnectDone")

\* C39 for the start of onConnect: onReceive and onDisconnect of a
\* connection are never invoked before onConnect has been invoked for it
C39_HooksAfterConnectInvoked == HooksAfter("onConnect")

\* a request was dispatched and the connection disconnected, both before the
\* connection's onConnect completed
C39_ServedWhileConnecting ==
  \E s \in 1..Len(serverSockets) :
    /\ Called("onReceive", s)
    /\ Called("onDisconnect", s)
    /\ ~Called("onConnectDone", s)

\* a request was dispatched after the connection's onConnect had completed
C39_ServedAfterConnect ==
  \E j, k \in 1..Len(hookCalls) :
    /\ j < k
    /\ hookCalls[j].hook = "onConnectDone"
    /\ hookCalls[k] = HookCall("onReceive", hookCalls[j].conn)

====
